---- MODULE Spec2Model ----
(***************************************************************************)
(* Rule-routing core of proxy-fork: the ProxyManager (exact index +        *)
(* ordered pattern list + LRU cache + atomic counters), the matchers it    *)
(* relies on, and the callers that share it behind a read-write lock.      *)
(*                                                                         *)
(* Conventions.  A Rust String is a sequence of one-character strings.     *)
(* An Option<T> is a sequence of length <= 1: <<>> is None, <<v>> is       *)
(* Some(v).  A Protocol is "Http" or "Https".                              *)
(***************************************************************************)
EXTENDS Integers, Sequences, FiniteSets, TLC

VARIABLES
    exact_rules,    \* ProxyManager.exact_rules : HashMap<ExactKey, Address>
    pattern_rules,  \* ProxyManager.pattern_rules : Vec<ProxyRule>
    cache,          \* ProxyManager.cache : LruCache<String, Option<Address>>, most recent first
    stats,          \* ProxyManager.stats : the five atomic counters
    last,           \* the call that returned last, with its arguments and result
    pc,             \* per task, the position inside the call it is running
    loc,            \* per task, the locals of the call it is running
    rw,             \* the runtime's RwLock<ProxyManager>: readers and writer
    mutex,          \* holder of the cache Mutex, as an Option<task>
    cap,            \* capacity of the LruCache, as an Option: None while no manager exists
    env,            \* what the proxy-fork process is started with: command line and files, as an Option
    proc            \* the proxy-fork process: its phase, merged configuration and exit code, as an Option

vars == <<exact_rules, pattern_rules, cache, stats, last, pc, loc, rw, mutex, cap, env, proc>>

None == <<>>
Some(v) == <<v>>
IsSome(o) == Len(o) = 1
Unwrap(o) == o[1]

----------------------------------------------------------------------------
(* Strings *)

\* str::starts_with
StartsWith(s, p) == Len(p) <= Len(s) /\ SubSeq(s, 1, Len(p)) = p

\* str::ends_with
EndsWith(s, p) == Len(p) <= Len(s) /\ SubSeq(s, Len(s) - Len(p) + 1, Len(s)) = p

\* str::contains(char)
Contains(s, c) == \E i \in 1..Len(s) : s[i] = c

\* str::trim_end_matches(char): every trailing occurrence of c is removed
RECURSIVE TrimEndMatches(_, _)
TrimEndMatches(s, c) ==
    IF Len(s) > 0 /\ s[Len(s)] = c
    THEN TrimEndMatches(SubSeq(s, 1, Len(s) - 1), c)
    ELSE s

----------------------------------------------------------------------------
(* match_strategy.rs *)

\* Regex::is_match for the patterns used here: literal characters, '.' for
\* any character, an optional leading '^' and an optional trailing '$'.
RegexCharsAt(lit, v, i) ==
    /\ i + Len(lit) - 1 <= Len(v)
    /\ \A k \in 1..Len(lit) : lit[k] = "." \/ lit[k] = v[i + k - 1]

RegexIsMatch(re, v) ==
    LET anchS == Len(re) > 0 /\ re[1] = "^"
        r1    == IF anchS THEN SubSeq(re, 2, Len(re)) ELSE re
        anchE == Len(r1) > 0 /\ r1[Len(r1)] = "$"
        lit   == IF anchE THEN SubSeq(r1, 1, Len(r1) - 1) ELSE r1
        starts == IF anchS THEN {1} ELSE 1..(Len(v) + 1)
    IN \E i \in starts :
          /\ RegexCharsAt(lit, v, i)
          /\ anchE => i + Len(lit) - 1 = Len(v)

\* PatternMatcher::from_str
PatternMatcher_from_str(s) ==
    IF StartsWith(s, <<"r", "e", ":">>)
    THEN [kind |-> "Regex", s |-> s]
    ELSE IF Contains(s, "*")
         THEN [kind |-> "Wildcard", s |-> s]
         ELSE [kind |-> "Exact", s |-> s]

\* matches with the two Wildcard shapes tested in the other order: a
\* trailing '*' first
PatternMatcher_matches_SuffixFirst(m, value) ==
    CASE m.kind = "Exact" -> value = m.s
      [] m.kind = "Wildcard" ->
            IF Len(m.s) > 0 /\ m.s[Len(m.s)] = "*"
            THEN StartsWith(value, SubSeq(m.s, 1, Len(m.s) - 1))
            ELSE IF Len(m.s) > 0 /\ m.s[1] = "*"
                 THEN EndsWith(value, SubSeq(m.s, 2, Len(m.s)))
                 ELSE value = m.s
      [] m.kind = "Regex" -> RegexIsMatch(SubSeq(m.s, 4, Len(m.s)), value)

\* PatternMatcher::matches
PatternMatcher_matches(m, value) ==
    CASE m.kind = "Exact" -> value = m.s
      [] m.kind = "Wildcard" ->
            IF Len(m.s) > 0 /\ m.s[1] = "*"
            THEN EndsWith(value, SubSeq(m.s, 2, Len(m.s)))
            ELSE IF Len(m.s) > 0 /\ m.s[Len(m.s)] = "*"
                 THEN StartsWith(value, SubSeq(m.s, 1, Len(m.s) - 1))
                 ELSE value = m.s
      [] m.kind = "Regex" -> RegexIsMatch(SubSeq(m.s, 4, Len(m.s)), value)

----------------------------------------------------------------------------
(* http_address.rs *)

\* str::to_ascii_lowercase on a scheme
ToAsciiLowercase(s) ==
    CASE s = "HTTP" -> "http"
      [] s = "HTTPS" -> "https"
      [] OTHER -> s

\* Protocol::try_from(&Uri): Some(protocol), or None for Err(())
Protocol_try_from(uri) ==
    LET s == ToAsciiLowercase(IF IsSome(uri.scheme) THEN Unwrap(uri.scheme) ELSE "http")
    IN CASE s = "http" -> Some("Http")
         [] s = "https" -> Some("Https")
         [] OTHER -> None

\* Address::from_uri: Some(address), or None for Err(_)
Address_from_uri(uri) ==
    IF ~IsSome(Protocol_try_from(uri)) THEN None
    ELSE IF ~IsSome(uri.host) THEN None
    ELSE Some([protocol |-> Unwrap(Protocol_try_from(uri)),
               host |-> Unwrap(uri.host),
               port |-> uri.port,
               path |-> uri.pq,
               path_transform_mode |-> "Preserve"])

\* AddressPattern::new
AddressPattern_new(protocol, host, port, path) ==
    [protocol |-> protocol,
     port |-> port,
     pattern_type |->
        [host |-> PatternMatcher_from_str(host),
         path |-> IF IsSome(path) THEN Some(PatternMatcher_from_str(Unwrap(path))) ELSE None]]

\* matches with the ports compared as Options: a pattern without port
\* accepts only an address without port
AddressPattern_matches_PortStrict(p, address) ==
    IF p.protocol # address.protocol THEN FALSE
    ELSE IF address.port # p.port THEN FALSE
    ELSE IF ~PatternMatcher_matches(p.pattern_type.host, address.host) THEN FALSE
    ELSE IF ~IsSome(p.pattern_type.path) THEN TRUE
    ELSE IF IsSome(address.path)
         THEN PatternMatcher_matches(Unwrap(p.pattern_type.path), Unwrap(address.path))
         ELSE FALSE

\* AddressPattern::matches
AddressPattern_matches(p, address) ==
    IF p.protocol # address.protocol THEN FALSE
    ELSE IF IsSome(p.port) /\ address.port # p.port THEN FALSE
    ELSE IF ~PatternMatcher_matches(p.pattern_type.host, address.host) THEN FALSE
    ELSE IF ~IsSome(p.pattern_type.path) THEN TRUE
    ELSE IF IsSome(address.path)
         THEN PatternMatcher_matches(Unwrap(p.pattern_type.path), Unwrap(address.path))
         ELSE FALSE

----------------------------------------------------------------------------
(* Bounds of the model and the inputs the calls are drawn from *)

MaxPatternRules == 2    \* add_rule of a pattern rule is offered while the list is shorter
MaxLookups == 2         \* lookups are offered while total_lookups is below this
CacheSize == 2          \* ProxyManagerConfig.cache_size given to from_config
MaxValueLen == 3        \* the strings handed to PatternMatcher::matches are no longer

HostA == <<"a", ".", "x">>
HostB == <<"b", ".", "x">>
HostStar == <<"*", ".", "x">>
PathP == <<"/", "p">>
PathPStar == <<"/", "p", "*">>

\* Request URIs as http::Uri holds them.  An absolute URI always has a
\* path-and-query; an authority-form URI (CONNECT) has none; an origin-form
\* URI has neither scheme nor host.
UriAbsA == [scheme |-> Some("http"), host |-> Some(HostA), port |-> None, pq |-> Some(PathP)]
UriAbsB == [scheme |-> Some("http"), host |-> Some(HostB), port |-> None, pq |-> Some(PathP)]
UriAuthA == [scheme |-> None, host |-> Some(HostA), port |-> None, pq |-> None]
UriOrigin == [scheme |-> None, host |-> None, port |-> None, pq |-> Some(PathP)]
UriFtp == [scheme |-> Some("ftp"), host |-> Some(HostA), port |-> None, pq |-> Some(PathP)]

Uris == {UriAbsA, UriAbsB, UriAuthA, UriOrigin, UriFtp}

PatHostOnly == AddressPattern_new("Http", HostA, None, None)
PatHostPath == AddressPattern_new("Http", HostA, None, Some(PathP))
PatWildHost == AddressPattern_new("Http", HostStar, None, None)
PatWildPath == AddressPattern_new("Http", HostA, None, Some(PathPStar))

Patterns == {PatHostOnly, PatHostPath, PatWildHost, PatWildPath}

Target1 == [protocol |-> "Http", host |-> <<"t", "1">>, port |-> Some(80), path |-> None,
            path_transform_mode |-> "Preserve"]
Target2 == [protocol |-> "Https", host |-> <<"t", "2">>, port |-> None, path |-> None,
            path_transform_mode |-> "Preserve"]

Targets == {Target1, Target2}

Rule(pattern, target) == [pattern |-> pattern, target |-> target]

\* The rules offered to add_rule: two keys of the exact index (one of them
\* with two targets) and two pattern rules that overlap on UriAbsA
Rules ==
    {Rule(PatHostOnly, Target1), Rule(PatHostPath, Target1), Rule(PatHostPath, Target2),
     Rule(PatWildHost, Target2), Rule(PatWildPath, Target1)}

----------------------------------------------------------------------------
(* http::Uri and lru::LruCache, as the manager uses them *)

Digits == <<"0", "1", "2", "3", "4", "5", "6", "7", "8", "9">>

\* u16 Display: the decimal digits of p, most significant first
RECURSIVE PortToString(_)
PortToString(p) ==
    IF p < 10 THEN <<Digits[p + 1]>>
    ELSE PortToString(p \div 10) \o <<Digits[(p % 10) + 1]>>

\* Uri::to_string: scheme "://" when present, authority when present, then
\* the path and query (empty for an authority-form URI)
Uri_to_string(uri) ==
    (IF IsSome(uri.scheme) THEN <<Unwrap(uri.scheme), ":", "/", "/">> ELSE <<>>)
    \o (IF IsSome(uri.host) THEN Unwrap(uri.host) ELSE <<>>)
    \o (IF IsSome(uri.port) THEN <<":">> \o PortToString(Unwrap(uri.port)) ELSE <<>>)
    \o (IF IsSome(uri.pq) THEN Unwrap(uri.pq) ELSE <<>>)

\* LruCache::contains
CacheContains(c, k) == \E i \in 1..Len(c) : c[i].key = k

CacheIndex(c, k) == CHOOSE i \in 1..Len(c) : c[i].key = k

\* LruCache::peek: the stored value, recency untouched
CachePeek(c, k) == c[CacheIndex(c, k)].value

RemoveAt(c, i) == SubSeq(c, 1, i - 1) \o SubSeq(c, i + 1, Len(c))

\* get that leaves the recency order as it is
CacheGet_NoPromote(c, k) == c

\* LruCache::get on a present key: the entry becomes the most recently used
CacheGet(c, k) == <<c[CacheIndex(c, k)]>> \o RemoveAt(c, CacheIndex(c, k))

\* put that never evicts
CachePut_NoEvict(c, k, v) ==
    IF CacheContains(c, k)
    THEN <<[key |-> k, value |-> v]>> \o RemoveAt(c, CacheIndex(c, k))
    ELSE <<[key |-> k, value |-> v]>> \o c

\* LruCache::put: update and promote a present key; otherwise insert as most
\* recent, evicting the least recently used entry of a full cache
CachePut(c, k, v) ==
    IF CacheContains(c, k)
    THEN <<[key |-> k, value |-> v]>> \o RemoveAt(c, CacheIndex(c, k))
    ELSE IF Len(c) >= Unwrap(cap)
         THEN <<[key |-> k, value |-> v]>> \o SubSeq(c, 1, Unwrap(cap) - 1)
         ELSE <<[key |-> k, value |-> v]>> \o c

----------------------------------------------------------------------------
(* proxy_manage_stats.rs *)

ZeroStats == [cache_hits |-> 0, exact_hits |-> 0, pattern_hits |-> 0, misses |-> 0,
              total_lookups |-> 0]

inc_total(st) == [st EXCEPT !.total_lookups = @ + 1]
inc_cache(st) == [st EXCEPT !.cache_hits = @ + 1]
inc_exact(st) == [st EXCEPT !.exact_hits = @ + 1]
inc_pattern(st) == [st EXCEPT !.pattern_hits = @ + 1]
inc_miss(st) == [st EXCEPT !.misses = @ + 1]

----------------------------------------------------------------------------
(* proxy_manage.rs: pure parts *)

\* ExactKey::from_address
ExactKey_from_address(addr) ==
    [protocol |-> addr.protocol, host |-> addr.host, port |-> addr.port, path |-> addr.path]

\* is_exact that looks at the host matcher alone
is_exact_HostOnly(pattern) == pattern.pattern_type.host.kind = "Exact"

\* add_rule, `let is_exact = ...`
is_exact(pattern) ==
    IF pattern.pattern_type.host.kind # "Exact" THEN FALSE
    ELSE IF ~IsSome(pattern.pattern_type.path) THEN TRUE
    ELSE Unwrap(pattern.pattern_type.path).kind = "Exact"

\* add_rule, `let key = ExactKey { ... }`
ExactKeyOfPattern(pattern) ==
    [protocol |-> pattern.protocol,
     host |-> pattern.pattern_type.host.s,
     port |-> pattern.port,
     path |-> IF ~IsSome(pattern.pattern_type.path) THEN None
              ELSE IF Unwrap(pattern.pattern_type.path).kind = "Exact"
                   THEN Some(Unwrap(pattern.pattern_type.path).s)
                   ELSE None]

\* HashMap::insert
MapInsert(m, k, v) == [x \in DOMAIN m \cup {k} |-> IF x = k THEN v ELSE m[x]]

EmptyMap == [x \in {} |-> None]

\* the scan of the list run from its tail: the last matching rule, 0 if none
LastMatch(pr, addr) ==
    IF \E i \in 1..Len(pr) : AddressPattern_matches(pr[i].pattern, addr)
    THEN CHOOSE i \in 1..Len(pr) :
            /\ AddressPattern_matches(pr[i].pattern, addr)
            /\ \A j \in (i + 1)..Len(pr) : ~AddressPattern_matches(pr[j].pattern, addr)
    ELSE 0

\* `for rule in &self.pattern_rules { if rule.pattern.matches(address) ... }`:
\* the index of the first rule of the list whose pattern matches, 0 if none
FirstMatch(pr, addr) ==
    IF \E i \in 1..Len(pr) : AddressPattern_matches(pr[i].pattern, addr)
    THEN CHOOSE i \in 1..Len(pr) :
            /\ AddressPattern_matches(pr[i].pattern, addr)
            /\ \A j \in 1..(i - 1) : ~AddressPattern_matches(pr[j].pattern, addr)
    ELSE 0

\* find_target_for_address_uncached: the result and the counter it records
find_target_for_address_uncached(er, pr, addr) ==
    IF ExactKey_from_address(addr) \in DOMAIN er
    THEN [result |-> Some(er[ExactKey_from_address(addr)]), counter |-> "exact"]
    ELSE IF FirstMatch(pr, addr) # 0
         THEN [result |-> Some(pr[FirstMatch(pr, addr)].target), counter |-> "pattern"]
         ELSE [result |-> None, counter |-> "miss"]

\* the counter step with the miss left uncounted
Record_NoMiss(st, counter) ==
    CASE counter = "exact" -> inc_exact(st)
      [] counter = "pattern" -> inc_pattern(st)
      [] counter = "miss" -> st

\* the counter step that goes with an index outcome
Record(st, counter) ==
    CASE counter = "exact" -> inc_exact(st)
      [] counter = "pattern" -> inc_pattern(st)
      [] counter = "miss" -> inc_miss(st)

\* the prefix of a Wildcard path predicate handed out with its '*'
matched_path_prefix_Raw(pattern) ==
    IF IsSome(pattern.pattern_type.path)
    THEN CASE Unwrap(pattern.pattern_type.path).kind = "Exact" ->
                 Some(Unwrap(pattern.pattern_type.path).s)
           [] Unwrap(pattern.pattern_type.path).kind = "Wildcard" ->
                 Some(Unwrap(pattern.pattern_type.path).s)
           [] Unwrap(pattern.pattern_type.path).kind = "Regex" -> None
    ELSE None

\* find_target_with_match_info, `let matched_path_prefix = ...`
matched_path_prefix(pattern) ==
    IF IsSome(pattern.pattern_type.path)
    THEN CASE Unwrap(pattern.pattern_type.path).kind = "Exact" ->
                 Some(Unwrap(pattern.pattern_type.path).s)
           [] Unwrap(pattern.pattern_type.path).kind = "Wildcard" ->
                 Some(TrimEndMatches(Unwrap(pattern.pattern_type.path).s, "*"))
           [] Unwrap(pattern.pattern_type.path).kind = "Regex" -> None
    ELSE None

\* find_target_with_match_info after the URI parsed: Option<MatchResult> and counter
MatchInfoLookup(er, pr, addr) ==
    IF ExactKey_from_address(addr) \in DOMAIN er
    THEN [result |-> Some([target |-> er[ExactKey_from_address(addr)],
                           matched_path_prefix |-> ExactKey_from_address(addr).path]),
          counter |-> "exact"]
    ELSE IF FirstMatch(pr, addr) # 0
         THEN [result |-> Some([target |-> pr[FirstMatch(pr, addr)].target,
                                matched_path_prefix |->
                                    matched_path_prefix(pr[FirstMatch(pr, addr)].pattern)]),
               counter |-> "pattern"]
         ELSE [result |-> None, counter |-> "miss"]

----------------------------------------------------------------------------
(* proxy_manage.rs: the calls, one task at a time *)

Tasks == {1, 2}

Idle == [t \in Tasks |-> "idle"]
NoLocals == [t \in Tasks |-> None]
Unlocked == [readers |-> {}, writer |-> None]

Call(op, uri, rule, result, hit) ==
    [op |-> op, uri |-> uri, rule |-> rule, result |-> result, hit |-> hit]

\* ProxyManager::from_config with cache_size = CacheSize and no initial rules
Init ==
    /\ exact_rules = EmptyMap
    /\ pattern_rules = <<>>
    /\ cache = <<>>
    /\ stats = ZeroStats
    /\ last = Call("from_config", None, None, None, FALSE)
    /\ pc = Idle
    /\ loc = NoLocals
    /\ rw = Unlocked
    /\ mutex = None
    /\ cap = Some(CacheSize)
    /\ env = None
    /\ proc = None

\* ProxyManager::add_rule: an exact rule goes into the index and the call
\* returns there; any other rule is pushed and the cache is cleared
add_rule(pattern, target) ==
    /\ ~is_exact(pattern) => Len(pattern_rules) < MaxPatternRules
    /\ IF is_exact(pattern)
       THEN /\ exact_rules' = MapInsert(exact_rules, ExactKeyOfPattern(pattern), target)
            /\ UNCHANGED <<pattern_rules, cache>>
       ELSE /\ pattern_rules' = Append(pattern_rules, Rule(pattern, target))
            /\ cache' = <<>>
            /\ UNCHANGED exact_rules
    /\ last' = Call("add_rule", None, Some(Rule(pattern, target)), None, FALSE)
    /\ UNCHANGED <<stats, pc, loc, rw, mutex, cap, env, proc>>

\* find_target that caches a result only when there is one
FindTargetOutcome_NoNegative(er, pr, c, st, uri) ==
    IF CacheContains(c, Uri_to_string(uri))
    THEN [result |-> CachePeek(c, Uri_to_string(uri)),
          cache |-> CacheGet(c, Uri_to_string(uri)),
          stats |-> inc_cache(inc_total(st)),
          hit |-> TRUE]
    ELSE IF ~IsSome(Address_from_uri(uri))
         THEN [result |-> None, cache |-> c, stats |-> inc_total(st), hit |-> FALSE]
         ELSE LET r == find_target_for_address_uncached(er, pr, Unwrap(Address_from_uri(uri)))
              IN [result |-> r.result,
                  cache |-> IF IsSome(r.result)
                            THEN CachePut(c, Uri_to_string(uri), r.result)
                            ELSE c,
                  stats |-> Record(inc_total(st), r.counter),
                  hit |-> FALSE]

\* ProxyManager::find_target: what it returns and what it leaves behind
FindTargetOutcome(er, pr, c, st, uri) ==
    IF CacheContains(c, Uri_to_string(uri))
    THEN [result |-> CachePeek(c, Uri_to_string(uri)),
          cache |-> CacheGet(c, Uri_to_string(uri)),
          stats |-> inc_cache(inc_total(st)),
          hit |-> TRUE]
    ELSE IF ~IsSome(Address_from_uri(uri))
         THEN [result |-> None, cache |-> c, stats |-> inc_total(st), hit |-> FALSE]
         ELSE LET r == find_target_for_address_uncached(er, pr, Unwrap(Address_from_uri(uri)))
              IN [result |-> r.result,
                  cache |-> CachePut(c, Uri_to_string(uri), r.result),
                  stats |-> Record(inc_total(st), r.counter),
                  hit |-> FALSE]

find_target(uri) ==
    /\ stats.total_lookups < MaxLookups
    /\ LET o == FindTargetOutcome(exact_rules, pattern_rules, cache, stats, uri)
       IN /\ cache' = o.cache
          /\ stats' = o.stats
          /\ last' = Call("find_target", Some(uri), None, Some(o.result), o.hit)
    /\ UNCHANGED <<exact_rules, pattern_rules, pc, loc, rw, mutex, cap, env, proc>>

\* find_target_with_match_info that answers from the cache when the URI
\* string is in it
MatchInfoOutcome_Cached(er, pr, st, uri) ==
    IF CacheContains(cache, Uri_to_string(uri))
    THEN [result |-> IF IsSome(CachePeek(cache, Uri_to_string(uri)))
                     THEN Some([target |-> Unwrap(CachePeek(cache, Uri_to_string(uri))),
                                matched_path_prefix |-> None])
                     ELSE None,
          stats |-> inc_cache(inc_total(st))]
    ELSE IF ~IsSome(Address_from_uri(uri))
    THEN [result |-> None, stats |-> inc_total(st)]
    ELSE LET r == MatchInfoLookup(er, pr, Unwrap(Address_from_uri(uri)))
         IN [result |-> r.result, stats |-> Record(inc_total(st), r.counter)]

\* ProxyManager::find_target_with_match_info
MatchInfoOutcome(er, pr, st, uri) ==
    IF ~IsSome(Address_from_uri(uri))
    THEN [result |-> None, stats |-> inc_total(st)]
    ELSE LET r == MatchInfoLookup(er, pr, Unwrap(Address_from_uri(uri)))
         IN [result |-> r.result, stats |-> Record(inc_total(st), r.counter)]

find_target_with_match_info(uri) ==
    /\ stats.total_lookups < MaxLookups
    /\ LET o == MatchInfoOutcome(exact_rules, pattern_rules, stats, uri)
       IN /\ stats' = o.stats
          /\ last' = Call("find_target_with_match_info", Some(uri), None, Some(o.result), FALSE)
    /\ UNCHANGED <<exact_rules, pattern_rules, cache, pc, loc, rw, mutex, cap, env, proc>>

\* ProxyManager::stats
stats_snapshot ==
    /\ last' = Call("stats", None, None, Some(stats), FALSE)
    /\ UNCHANGED <<exact_rules, pattern_rules, cache, stats, pc, loc, rw, mutex, cap, env, proc>>

\* ProxyManager::reset_stats
reset_stats ==
    /\ stats' = ZeroStats
    /\ last' = Call("reset_stats", None, None, None, FALSE)
    /\ UNCHANGED <<exact_rules, pattern_rules, cache, pc, loc, rw, mutex, cap, env, proc>>

\* clear that leaves the cache as it is
clear_KeepsCache ==
    /\ exact_rules' = EmptyMap
    /\ pattern_rules' = <<>>
    /\ stats' = ZeroStats
    /\ last' = Call("clear", None, None, None, FALSE)
    /\ UNCHANGED <<cache, pc, loc, rw, mutex, cap, env, proc>>

\* ProxyManager::clear
clear ==
    /\ exact_rules' = EmptyMap
    /\ pattern_rules' = <<>>
    /\ cache' = <<>>
    /\ stats' = ZeroStats
    /\ last' = Call("clear", None, None, None, FALSE)
    /\ UNCHANGED <<pc, loc, rw, mutex, cap, env, proc>>

\* clear_cache that resets the counters as clear does
clear_cache_ResetsStats ==
    /\ cache' = <<>>
    /\ stats' = ZeroStats
    /\ last' = Call("clear_cache", None, None, None, FALSE)
    /\ UNCHANGED <<exact_rules, pattern_rules, pc, loc, rw, mutex, cap, env, proc>>

\* ProxyManager::clear_cache
clear_cache ==
    /\ cache' = <<>>
    /\ last' = Call("clear_cache", None, None, None, FALSE)
    /\ UNCHANGED <<exact_rules, pattern_rules, stats, pc, loc, rw, mutex, cap, env, proc>>

\* ProxyManager::all_rules().len(): one rule per index entry, then the list
all_rules_len == Cardinality(DOMAIN exact_rules) + Len(pattern_rules)

\* ProxyManager::exact_rule_count
exact_rule_count == Cardinality(DOMAIN exact_rules)

\* ProxyManager::pattern_rule_count
pattern_rule_count == Len(pattern_rules)

Next ==
    \/ \E r \in Rules : add_rule(r.pattern, r.target)
    \/ \E u \in Uris : find_target(u)
    \/ \E u \in Uris : find_target_with_match_info(u)
    \/ stats_snapshot
    \/ reset_stats
    \/ clear
    \/ clear_cache

Spec == Init /\ [][Next]_vars

----------------------------------------------------------------------------
(* The same calls run by concurrent tasks.  A task holds the runtime's     *)
(* RwLock for the length of a call: shared for the &self methods,          *)
(* exclusive for the &mut self methods.  Every step touches one atomic     *)
(* counter or runs one critical section of the cache mutex.                *)

ConcUris == {UriAuthA, UriAbsA, UriAbsB, UriOrigin}
ConcRules == {Rule(PatHostOnly, Target1), Rule(PatHostPath, Target1), Rule(PatWildHost, Target2)}

CanRead == rw.writer = None
CanWrite == rw.writer = None /\ rw.readers = {}

AcquireRead(t) == [rw EXCEPT !.readers = @ \cup {t}]
ReleaseRead(t) == [rw EXCEPT !.readers = @ \ {t}]
AcquireWrite(t) == [rw EXCEPT !.writer = Some(t)]
ReleaseWrite == [rw EXCEPT !.writer = None]

Goto(t, label) == [pc EXCEPT ![t] = label]
SetLoc(t, v) == [loc EXCEPT ![t] = Some(v)]
Local(t) == Unwrap(loc[t])

\* a &self call returns: the locals die, the shared access ends
ReturnRead(t, call) ==
    /\ pc' = Goto(t, "idle")
    /\ loc' = [loc EXCEPT ![t] = None]
    /\ rw' = ReleaseRead(t)
    /\ last' = call

\* a &mut self call returns
ReturnWrite(t, call) ==
    /\ pc' = Goto(t, "idle")
    /\ loc' = [loc EXCEPT ![t] = None]
    /\ rw' = ReleaseWrite
    /\ last' = call

\* find_target, `self.stats.inc_total()`
ft_begin(t, uri) ==
    /\ pc[t] = "idle" /\ CanRead
    /\ stats.total_lookups < MaxLookups
    /\ rw' = AcquireRead(t)
    /\ stats' = inc_total(stats)
    /\ pc' = Goto(t, "ft_get")
    /\ loc' = SetLoc(t, [uri |-> uri, result |-> None])
    /\ UNCHANGED <<exact_rules, pattern_rules, cache, last, mutex, cap, env, proc>>

\* find_target, `cache.get(&uri_str)` under the first lock.  On a hit the
\* guard stays alive until the return; on a miss it is dropped and the URI
\* is parsed, which ends the call when it fails.
ft_get(t) ==
    /\ pc[t] = "ft_get" /\ mutex = None
    /\ IF CacheContains(cache, Uri_to_string(Local(t).uri))
       THEN /\ cache' = CacheGet(cache, Uri_to_string(Local(t).uri))
            /\ mutex' = Some(t)
            /\ pc' = Goto(t, "ft_hit")
            /\ loc' = SetLoc(t, [Local(t) EXCEPT
                                   !.result = CachePeek(cache, Uri_to_string(Local(t).uri))])
            /\ UNCHANGED <<rw, last>>
       ELSE IF ~IsSome(Address_from_uri(Local(t).uri))
            THEN /\ ReturnRead(t, Call("find_target", Some(Local(t).uri), None, Some(None), FALSE))
                 /\ UNCHANGED <<cache, mutex>>
            ELSE /\ pc' = Goto(t, "ft_lookup")
                 /\ UNCHANGED <<cache, mutex, loc, rw, last>>
    /\ UNCHANGED <<exact_rules, pattern_rules, stats, cap, env, proc>>

\* find_target returning on a hit without its mutex guard being dropped
ft_hit_KeepsGuard(t) ==
    /\ pc[t] = "ft_hit"
    /\ stats' = inc_cache(stats)
    /\ ReturnRead(t, Call("find_target", Some(Local(t).uri), None, Some(Local(t).result), TRUE))
    /\ UNCHANGED <<exact_rules, pattern_rules, cache, mutex, cap, env, proc>>

\* find_target, `self.stats.inc_cache(); return cached.clone()`
ft_hit(t) ==
    /\ pc[t] = "ft_hit"
    /\ stats' = inc_cache(stats)
    /\ mutex' = None
    /\ ReturnRead(t, Call("find_target", Some(Local(t).uri), None, Some(Local(t).result), TRUE))
    /\ UNCHANGED <<exact_rules, pattern_rules, cache, cap, env, proc>>

\* find_target, `self.find_target_for_address_uncached(&address)`
ft_lookup(t) ==
    /\ pc[t] = "ft_lookup"
    /\ LET r == find_target_for_address_uncached(exact_rules, pattern_rules,
                                                 Unwrap(Address_from_uri(Local(t).uri)))
       IN /\ stats' = Record(stats, r.counter)
          /\ loc' = SetLoc(t, [Local(t) EXCEPT !.result = r.result])
    /\ pc' = Goto(t, "ft_put")
    /\ UNCHANGED <<exact_rules, pattern_rules, cache, last, rw, mutex, cap, env, proc>>

\* find_target, `cache.put(uri_str, result.clone())` under the second lock
ft_put(t) ==
    /\ pc[t] = "ft_put" /\ mutex = None
    /\ cache' = CachePut(cache, Uri_to_string(Local(t).uri), Local(t).result)
    /\ ReturnRead(t, Call("find_target", Some(Local(t).uri), None, Some(Local(t).result), FALSE))
    /\ UNCHANGED <<exact_rules, pattern_rules, stats, mutex, cap, env, proc>>

\* find_target_with_match_info, `self.stats.inc_total()`
mi_begin(t, uri) ==
    /\ pc[t] = "idle" /\ CanRead
    /\ stats.total_lookups < MaxLookups
    /\ rw' = AcquireRead(t)
    /\ stats' = inc_total(stats)
    /\ pc' = Goto(t, "mi_lookup")
    /\ loc' = SetLoc(t, [uri |-> uri])
    /\ UNCHANGED <<exact_rules, pattern_rules, cache, last, mutex, cap, env, proc>>

\* find_target_with_match_info from the parse to the return
mi_lookup(t) ==
    /\ pc[t] = "mi_lookup"
    /\ IF ~IsSome(Address_from_uri(Local(t).uri))
       THEN /\ ReturnRead(t, Call("find_target_with_match_info", Some(Local(t).uri), None,
                                  Some(None), FALSE))
            /\ UNCHANGED stats
       ELSE LET r == MatchInfoLookup(exact_rules, pattern_rules,
                                     Unwrap(Address_from_uri(Local(t).uri)))
            IN /\ stats' = Record(stats, r.counter)
               /\ ReturnRead(t, Call("find_target_with_match_info", Some(Local(t).uri), None,
                                     Some(r.result), FALSE))
    /\ UNCHANGED <<exact_rules, pattern_rules, cache, mutex, cap, env, proc>>

\* ProxyStats::snapshot: five relaxed loads, in the order of the struct literal
SnapshotOrder == <<"cache_hits", "exact_hits", "pattern_hits", "misses", "total_lookups">>

\* ProxyStats::reset: five relaxed stores, in the order of the statements
ResetOrder == <<"cache_hits", "exact_hits", "pattern_hits", "misses", "total_lookups">>

st_begin(t) ==
    /\ pc[t] = "idle" /\ CanRead
    /\ rw' = AcquireRead(t)
    /\ pc' = Goto(t, "st_load")
    /\ loc' = SetLoc(t, [i |-> 1, snap |-> ZeroStats])
    /\ UNCHANGED <<exact_rules, pattern_rules, cache, stats, last, mutex, cap, env, proc>>

st_load(t) ==
    /\ pc[t] = "st_load"
    /\ LET f == SnapshotOrder[Local(t).i]
           snap == [Local(t).snap EXCEPT ![f] = stats[f]]
       IN IF Local(t).i = Len(SnapshotOrder)
          THEN ReturnRead(t, Call("stats", None, None, Some(snap), FALSE))
          ELSE /\ loc' = SetLoc(t, [i |-> Local(t).i + 1, snap |-> snap])
               /\ UNCHANGED <<pc, rw, last>>
    /\ UNCHANGED <<exact_rules, pattern_rules, cache, stats, mutex, cap, env, proc>>

rs_begin(t) ==
    /\ pc[t] = "idle" /\ CanRead
    /\ rw' = AcquireRead(t)
    /\ pc' = Goto(t, "rs_store")
    /\ loc' = SetLoc(t, [i |-> 1])
    /\ UNCHANGED <<exact_rules, pattern_rules, cache, stats, last, mutex, cap, env, proc>>

rs_store(t) ==
    /\ pc[t] = "rs_store"
    /\ stats' = [stats EXCEPT ![ResetOrder[Local(t).i]] = 0]
    /\ IF Local(t).i = Len(ResetOrder)
       THEN ReturnRead(t, Call("reset_stats", None, None, None, FALSE))
       ELSE /\ loc' = SetLoc(t, [i |-> Local(t).i + 1])
            /\ UNCHANGED <<pc, rw, last>>
    /\ UNCHANGED <<exact_rules, pattern_rules, cache, mutex, cap, env, proc>>

\* clear_cache, `self.cache.lock().await.clear()`
cc_begin(t) ==
    /\ pc[t] = "idle" /\ CanRead
    /\ rw' = AcquireRead(t)
    /\ pc' = Goto(t, "cc_clear")
    /\ loc' = SetLoc(t, [i |-> 1])
    /\ UNCHANGED <<exact_rules, pattern_rules, cache, stats, last, mutex, cap, env, proc>>

cc_clear(t) ==
    /\ pc[t] = "cc_clear" /\ mutex = None
    /\ cache' = <<>>
    /\ ReturnRead(t, Call("clear_cache", None, None, None, FALSE))
    /\ UNCHANGED <<exact_rules, pattern_rules, stats, mutex, cap, env, proc>>

\* add_rule by a task that obtained exclusive access
ar_begin(t, rule) ==
    /\ pc[t] = "idle" /\ CanWrite
    /\ ~is_exact(rule.pattern) => Len(pattern_rules) < MaxPatternRules
    /\ rw' = AcquireWrite(t)
    /\ pc' = Goto(t, "ar_insert")
    /\ loc' = SetLoc(t, [rule |-> rule])
    /\ UNCHANGED <<exact_rules, pattern_rules, cache, stats, last, mutex, cap, env, proc>>

\* add_rule, `self.exact_rules.insert(key, target); return` or
\* `self.pattern_rules.push(...)`
ar_insert(t) ==
    /\ pc[t] = "ar_insert"
    /\ IF is_exact(Local(t).rule.pattern)
       THEN /\ exact_rules' = MapInsert(exact_rules, ExactKeyOfPattern(Local(t).rule.pattern),
                                        Local(t).rule.target)
            /\ ReturnWrite(t, Call("add_rule", None, Some(Local(t).rule), None, FALSE))
            /\ UNCHANGED pattern_rules
       ELSE /\ pattern_rules' = Append(pattern_rules, Local(t).rule)
            /\ pc' = Goto(t, "ar_clear")
            /\ UNCHANGED <<exact_rules, loc, rw, last>>
    /\ UNCHANGED <<cache, stats, mutex, cap, env, proc>>

\* add_rule, `self.cache.lock().await.clear()`
ar_clear(t) ==
    /\ pc[t] = "ar_clear" /\ mutex = None
    /\ cache' = <<>>
    /\ ReturnWrite(t, Call("add_rule", None, Some(Local(t).rule), None, FALSE))
    /\ UNCHANGED <<exact_rules, pattern_rules, stats, mutex, cap, env, proc>>

\* clear by a task that obtained exclusive access
cl_begin(t) ==
    /\ pc[t] = "idle" /\ CanWrite
    /\ rw' = AcquireWrite(t)
    /\ pc' = Goto(t, "cl_rules")
    /\ loc' = SetLoc(t, [i |-> 1])
    /\ UNCHANGED <<exact_rules, pattern_rules, cache, stats, last, mutex, cap, env, proc>>

\* clear, `self.exact_rules.clear(); self.pattern_rules.clear()`
cl_rules(t) ==
    /\ pc[t] = "cl_rules"
    /\ exact_rules' = EmptyMap
    /\ pattern_rules' = <<>>
    /\ pc' = Goto(t, "cl_cache")
    /\ UNCHANGED <<cache, stats, last, loc, rw, mutex, cap, env, proc>>

\* clear, `self.cache.lock().await.clear(); self.stats.reset()`
cl_cache(t) ==
    /\ pc[t] = "cl_cache" /\ mutex = None
    /\ cache' = <<>>
    /\ stats' = ZeroStats
    /\ ReturnWrite(t, Call("clear", None, None, None, FALSE))
    /\ UNCHANGED <<exact_rules, pattern_rules, mutex, cap, env, proc>>

\* add_rule, clear, clear_cache and the two lookups, interleaved
NextConc ==
    \E t \in Tasks :
        \/ \E u \in ConcUris : ft_begin(t, u)
        \/ ft_get(t)
        \/ ft_hit(t)
        \/ ft_lookup(t)
        \/ ft_put(t)
        \/ \E u \in ConcUris : mi_begin(t, u)
        \/ mi_lookup(t)
        \/ cc_begin(t)
        \/ cc_clear(t)
        \/ \E r \in ConcRules : ar_begin(t, r)
        \/ ar_insert(t)
        \/ ar_clear(t)
        \/ cl_begin(t)
        \/ cl_rules(t)
        \/ cl_cache(t)

SpecConc == Init /\ [][NextConc]_vars

StatsUris == {UriAuthA, UriOrigin}
StatsRules == {Rule(PatWildHost, Target2)}

\* the counter steps of the lookups, interleaved with stats() and reset_stats()
NextStats ==
    \E t \in Tasks :
        \/ \E u \in StatsUris : ft_begin(t, u)
        \/ ft_get(t)
        \/ ft_hit(t)
        \/ ft_lookup(t)
        \/ ft_put(t)
        \/ \E u \in StatsUris : mi_begin(t, u)
        \/ mi_lookup(t)
        \/ st_begin(t)
        \/ st_load(t)
        \/ rs_begin(t)
        \/ rs_store(t)
        \/ \E r \in StatsRules : ar_begin(t, r)
        \/ ar_insert(t)
        \/ ar_clear(t)

SpecStats == Init /\ [][NextStats]_vars

----------------------------------------------------------------------------
(* http::Uri as the rewrite engine builds it *)

IsDigit(c) == \E i \in 1..10 : Digits[i] = c

DigitValue(c) == (CHOOSE i \in 1..10 : Digits[i] = c) - 1

\* u16::from_str on a digit string: the number, 0 for the empty prefix
RECURSIVE DecimalValue(_)
DecimalValue(s) ==
    IF Len(s) = 0 THEN 0
    ELSE 10 * DecimalValue(SubSeq(s, 1, Len(s) - 1)) + DigitValue(s[Len(s)])

\* Port::from_str: Some(port), or None for a string that is not a u16
ParsePort(s) ==
    IF Len(s) = 0 \/ Len(s) > 5 \/ \E i \in 1..Len(s) : ~IsDigit(s[i]) THEN None
    ELSE IF DecimalValue(s) > 65535 THEN None
    ELSE Some(DecimalValue(s))

\* str::find / str::rfind of a character: its first / last position, 0 if absent
Find(s, c) == IF Contains(s, c) THEN CHOOSE i \in 1..Len(s) : s[i] = c /\ \A j \in 1..(i - 1) : s[j] # c ELSE 0
RFind(s, c) == IF Contains(s, c) THEN CHOOSE i \in 1..Len(s) : s[i] = c /\ \A j \in (i + 1)..Len(s) : s[j] # c ELSE 0

\* Authority::try_from accepts a non-empty string without a delimiter or
\* whitespace and with at most one ':'
AuthorityValid(a) ==
    /\ Len(a) > 0
    /\ \A i \in 1..Len(a) : a[i] \notin {" ", "/", "?", "#", "@"}
    /\ Find(a, ":") = RFind(a, ":")

\* Uri::host: the authority up to its ':'
AuthorityHost(a) == IF Find(a, ":") = 0 THEN a ELSE SubSeq(a, 1, Find(a, ":") - 1)

\* Uri::port_u16: what follows the last ':' of the authority, when a u16
AuthorityPort(a) == IF RFind(a, ":") = 0 THEN None ELSE ParsePort(SubSeq(a, RFind(a, ":") + 1, Len(a)))

\* PathAndQuery::try_from rejects whitespace
PathAndQueryValid(pq) == \A i \in 1..Len(pq) : pq[i] # " "

\* Uri::builder().scheme(..).authority(..).path_and_query(..).build():
\* Some(uri), or None for Err(_).  An empty path-and-query reads back as "/".
Uri_build(scheme, authority, path_and_query) ==
    IF AuthorityValid(authority) /\ PathAndQueryValid(path_and_query)
    THEN Some([scheme |-> Some(scheme),
               host |-> Some(AuthorityHost(authority)),
               port |-> AuthorityPort(authority),
               pq |-> Some(IF path_and_query = <<>> THEN <<"/">> ELSE path_and_query)])
    ELSE None

----------------------------------------------------------------------------
(* http_address.rs: the rewrite engine *)

\* the scheme fixed to "http" whatever the target's protocol
SchemeOf_Http(protocol) == "http"

\* to_uri_with_rewrite, `let scheme = ...`
SchemeOf(protocol) == IF protocol = "Http" THEN "http" ELSE "https"

\* to_uri_with_rewrite, `let authority = ...`
AuthorityOf(t) ==
    IF IsSome(t.port) THEN t.host \o <<":">> \o PortToString(Unwrap(t.port)) ELSE t.host

\* the original path taken to be "/" whatever the request URI
original_path_Root(uri) == <<"/">>

\* to_uri_with_rewrite, `let original_path = ...`
original_path(uri) == IF IsSome(uri.pq) THEN Unwrap(uri.pq) ELSE <<"/">>

\* the Replace arm with the old prefix removed from the front without the
\* starts_with test
ReplacePath_NoPrefixTest(t, uri, matched_prefix) ==
    IF IsSome(t.path) /\ IsSome(matched_prefix)
    THEN LET old_prefix_clean == TrimEndMatches(TrimEndMatches(Unwrap(matched_prefix), "*"), "/")
         IN TrimEndMatches(Unwrap(t.path), "/")
            \o SubSeq(original_path(uri), Len(old_prefix_clean) + 1, Len(original_path(uri)))
    ELSE original_path(uri)

\* to_uri_with_rewrite, the PathTransformMode::Replace arm
ReplacePath(t, uri, matched_prefix) ==
    IF IsSome(t.path) /\ IsSome(matched_prefix)
    THEN LET old_prefix_clean == TrimEndMatches(TrimEndMatches(Unwrap(matched_prefix), "*"), "/")
         IN IF StartsWith(original_path(uri), old_prefix_clean)
            THEN TrimEndMatches(Unwrap(t.path), "/")
                 \o SubSeq(original_path(uri), Len(old_prefix_clean) + 1, Len(original_path(uri)))
            ELSE original_path(uri)
    ELSE original_path(uri)

\* to_uri_with_rewrite, the PathTransformMode::Prepend arm
PrependPath(t, uri) ==
    IF IsSome(t.path)
    THEN TrimEndMatches(Unwrap(t.path), "/")
         \o (IF StartsWith(original_path(uri), <<"/">>) THEN original_path(uri) ELSE <<"/">>)
    ELSE original_path(uri)

\* to_uri_with_rewrite, `let path_and_query = match self.path_transform_mode`
RewritePath(t, uri, matched_prefix) ==
    CASE t.path_transform_mode = "Preserve" -> original_path(uri)
      [] t.path_transform_mode = "Prepend" -> PrependPath(t, uri)
      [] t.path_transform_mode = "Replace" -> ReplacePath(t, uri, matched_prefix)

\* Address::to_uri_with_rewrite: Some(uri), or None for Err(_)
to_uri_with_rewrite(t, uri, matched_prefix) ==
    Uri_build(SchemeOf(t.protocol), AuthorityOf(t), RewritePath(t, uri, matched_prefix))

----------------------------------------------------------------------------
(* The rewrite engine applied to every combination of a request URI, a     *)
(* target and a matched prefix                                             *)

PathPX == <<"/", "p", "/", "x">>
PathPXQ == <<"/", "p", "/", "x", "?", "q">>
QueryOnly == <<"?", "q">>

\* http://a.x/p/x, http://a.x:8080/p/x?q, https://a.x?q (no path, a query)
\* and http://a.x (no path, no query: the path-and-query reads "/")
UriPX == [scheme |-> Some("http"), host |-> Some(HostA), port |-> None, pq |-> Some(PathPX)]
UriPXQ == [scheme |-> Some("http"), host |-> Some(HostA), port |-> Some(8080), pq |-> Some(PathPXQ)]
UriQuery == [scheme |-> Some("https"), host |-> Some(HostA), port |-> None, pq |-> Some(QueryOnly)]
UriRoot == [scheme |-> Some("http"), host |-> Some(HostA), port |-> None, pq |-> Some(<<"/">>)]

RewriteUris == {UriPX, UriPXQ, UriQuery, UriRoot, UriAbsA, UriAuthA}

Modes == {"Preserve", "Prepend", "Replace"}

TargetPaths == {None, Some(<<"/", "n">>), Some(<<"/", "n", "/">>), Some(<<"/", "n", "/", "/">>), Some(<<"/">>)}

RewriteTargets ==
    [protocol : {"Http", "Https"}, host : {<<"t">>}, port : {None, Some(8080)},
     path : TargetPaths, path_transform_mode : Modes]

\* matched prefixes: none, a prefix of the paths above with and without a
\* trailing "/*", the catch-all, a prefix that reaches into the query, and
\* one the paths do not start with
Prefixes == {None, Some(PathP), Some(<<"/", "p", "/", "*">>), Some(<<"/", "*">>), Some(PathPXQ), Some(<<"/", "q">>)}

\* target.to_uri_with_rewrite(uri, matched_prefix)
rewrite(t, uri, matched_prefix) ==
    /\ last' = Call("to_uri_with_rewrite", Some(uri),
                    Some([target |-> t, matched_prefix |-> matched_prefix]),
                    Some(to_uri_with_rewrite(t, uri, matched_prefix)), FALSE)
    /\ UNCHANGED <<exact_rules, pattern_rules, cache, stats, pc, loc, rw, mutex, cap, env, proc>>

\* the rewrite towards the request's own address: Address::from_uri(uri)
\* as the target (its mode is Preserve)
rewrite_to_self(uri) ==
    /\ IsSome(Address_from_uri(uri))
    /\ rewrite(Unwrap(Address_from_uri(uri)), uri, None)

NextRewrite ==
    \/ \E t \in RewriteTargets : \E u \in RewriteUris : \E mp \in Prefixes : rewrite(t, u, mp)
    \/ \E u \in RewriteUris : rewrite_to_self(u)

SpecRewrite == Init /\ [][NextRewrite]_vars

----------------------------------------------------------------------------
(* proxy_handler.rs: the callbacks the runtime invokes per request.  Each  *)
(* holds the manager's lock in shared mode for the length of its lookup.   *)

\* the rewrite called without the matched prefix
RequestUriAfter_NoPrefix(found, uri) ==
    IF IsSome(found)
    THEN LET r == to_uri_with_rewrite(Unwrap(found).target, uri, None)
         IN IF IsSome(r) THEN Unwrap(r) ELSE uri
    ELSE uri

\* handle_request, the `if let Some(match_result) = ...` block: the request
\* URI it leaves, given what the lookup returned
RequestUriAfter(found, uri) ==
    IF IsSome(found)
    THEN LET r == to_uri_with_rewrite(Unwrap(found).target, uri,
                                      Unwrap(found).matched_path_prefix)
         IN IF IsSome(r) THEN Unwrap(r) ELSE uri
    ELSE uri

\* ProxyHandler::handle_request on a request with this URI
handle_request(uri) ==
    /\ stats.total_lookups < MaxLookups
    /\ LET o == MatchInfoOutcome(exact_rules, pattern_rules, stats, uri)
       IN /\ stats' = o.stats
          /\ last' = Call("handle_request", Some(uri), None,
                          Some(RequestUriAfter(o.result, uri)), FALSE)
    /\ UNCHANGED <<exact_rules, pattern_rules, cache, pc, loc, rw, mutex, cap, env, proc>>

\* should_intercept, the decision on what find_target returned
InterceptDecision(found) ==
    IF IsSome(found) THEN Unwrap(found).protocol = "Https" ELSE TRUE

\* should_intercept without the with_ca test of its first line
should_intercept_IgnoresCa(with_ca, uri) ==
    /\ stats.total_lookups < MaxLookups
    /\ LET o == FindTargetOutcome(exact_rules, pattern_rules, cache, stats, uri)
       IN /\ cache' = o.cache
          /\ stats' = o.stats
          /\ last' = Call("should_intercept", Some(uri), None,
                          Some([with_ca |-> with_ca,
                                intercept |-> InterceptDecision(o.result)]), o.hit)
    /\ UNCHANGED <<exact_rules, pattern_rules, pc, loc, rw, mutex, cap, env, proc>>

\* ProxyHandler::should_intercept of a handler built with this with_ca
should_intercept(with_ca, uri) ==
    IF ~with_ca
    THEN /\ last' = Call("should_intercept", Some(uri), None,
                         Some([with_ca |-> with_ca, intercept |-> FALSE]), FALSE)
         /\ UNCHANGED <<exact_rules, pattern_rules, cache, stats, pc, loc, rw, mutex, cap, env, proc>>
    ELSE /\ stats.total_lookups < MaxLookups
         /\ LET o == FindTargetOutcome(exact_rules, pattern_rules, cache, stats, uri)
            IN /\ cache' = o.cache
               /\ stats' = o.stats
               /\ last' = Call("should_intercept", Some(uri), None,
                               Some([with_ca |-> with_ca,
                                     intercept |-> InterceptDecision(o.result)]), o.hit)
         /\ UNCHANGED <<exact_rules, pattern_rules, pc, loc, rw, mutex, cap, env, proc>>

HostExample == <<"e", "x", "a", "m", "p", "l", "e", ".", "c", "o", "m">>
PathApiV1 == <<"/", "a", "p", "i", "/", "v", "1">>
PathApiV1Star == <<"/", "a", "p", "i", "/", "v", "1", "/", "*">>
PathApiV1Users == <<"/", "a", "p", "i", "/", "v", "1", "/", "u", "s", "e", "r", "s">>
PathApiV2 == <<"/", "a", "p", "i", "/", "v", "2">>
PathApiV2Users == <<"/", "a", "p", "i", "/", "v", "2", "/", "u", "s", "e", "r", "s">>
PathRegexP == <<"r", "e", ":", "^", "/", "p">>

\* http://example.com/api/v1/users and http://example.com/api/v1
UriV1Users == [scheme |-> Some("http"), host |-> Some(HostExample), port |-> None,
               pq |-> Some(PathApiV1Users)]
UriV1 == [scheme |-> Some("http"), host |-> Some(HostExample), port |-> None,
          pq |-> Some(PathApiV1)]

HandlerUris == {UriV1Users, UriV1, UriAbsA, UriAuthA, UriOrigin}

\* b:3000 with path /api/v2, mode Replace
TargetV2 == [protocol |-> "Http", host |-> <<"b">>, port |-> Some(3000),
             path |-> Some(PathApiV2), path_transform_mode |-> "Replace"]

\* a target whose host is not a valid authority
TargetBad == [protocol |-> "Http", host |-> <<"t", " ", "1">>, port |-> None, path |-> None,
              path_transform_mode |-> "Preserve"]

PatApiV1 == AddressPattern_new("Http", HostExample, None, Some(PathApiV1))
PatApiV1Star == AddressPattern_new("Http", HostExample, None, Some(PathApiV1Star))
PatRegexPath == AddressPattern_new("Http", HostA, None, Some(PathRegexP))
PatWildExactPath == AddressPattern_new("Http", HostStar, None, Some(PathP))
PatExampleStar == AddressPattern_new("Http", <<"e", "x", "a", "m", "p", "l", "e", ".", "*">>, None, None)

\* exact rules with and without path; pattern rules with a Wildcard, a
\* Regex, an Exact and no path predicate
HandlerRules ==
    {Rule(PatApiV1, TargetV2), Rule(PatHostOnly, Target1),
     Rule(PatApiV1Star, TargetV2), Rule(PatRegexPath, Target2),
     Rule(PatWildExactPath, Target1), Rule(PatExampleStar, TargetBad)}

NextHandler ==
    \/ \E r \in HandlerRules : add_rule(r.pattern, r.target)
    \/ \E u \in HandlerUris : handle_request(u)
    \/ \E u \in HandlerUris : \E with_ca \in BOOLEAN : should_intercept(with_ca, u)
    \/ \E u \in HandlerUris : find_target_with_match_info(u)

SpecHandler == Init /\ [][NextHandler]_vars

----------------------------------------------------------------------------
(* AddressPattern::matches applied to every pattern and address of a grid  *)

MatchPatterns ==
    {AddressPattern_new(proto, host, port, path) :
        proto \in {"Http", "Https"}, host \in {HostA, HostStar}, port \in {None, Some(80)},
        path \in {None, Some(PathP), Some(PathPStar), Some(PathRegexP)}}

MatchAddresses ==
    [protocol : {"Http", "Https"}, host : {HostA, HostB}, port : {None, Some(80), Some(443)},
     path : {None, Some(PathP), Some(PathPX), Some(<<"/", "q">>)},
     path_transform_mode : {"Preserve"}]

\* pattern.matches(&address)
matches(pattern, address) ==
    /\ last' = Call("matches", None, Some([pattern |-> pattern, address |-> address]),
                    Some(AddressPattern_matches(pattern, address)), FALSE)
    /\ UNCHANGED <<exact_rules, pattern_rules, cache, stats, pc, loc, rw, mutex, cap, env, proc>>

NextMatch == \E pattern \in MatchPatterns : \E address \in MatchAddresses : matches(pattern, address)

SpecMatch == Init /\ [][NextMatch]_vars

----------------------------------------------------------------------------
(* PatternMatcher::from_str and PatternMatcher::matches applied to every   *)
(* pattern string of a list and every short value over a small alphabet    *)

MatcherStrings ==
    {<<"a">>,
     <<"a", "b">>,
     <<"A">>,
     <<"*">>,
     <<"*", "a">>,
     <<"a", "*">>,
     <<"a", "*", "b">>,
     <<"*", "a", "*">>,
     <<"a", "*", "b", "*">>,
     <<"r", "e", ":", "a">>}

MatcherValues == UNION {[1..n -> {"a", "b", "A", "*"}] : n \in 0..MaxValueLen}

\* PatternMatcher::from_str(s) followed by matches(value) on the result
pattern_matches(s, value) ==
    /\ last' = Call("PatternMatcher::matches", None, Some([pattern |-> s, value |-> value]),
                    Some([kind |-> PatternMatcher_from_str(s).kind,
                          matched |-> PatternMatcher_matches(PatternMatcher_from_str(s), value)]),
                    FALSE)
    /\ UNCHANGED <<exact_rules, pattern_rules, cache, stats, pc, loc, rw, mutex, cap, env, proc>>

NextPattern == \E s \in MatcherStrings : \E value \in MatcherValues : pattern_matches(s, value)

SpecPattern == Init /\ [][NextPattern]_vars

----------------------------------------------------------------------------
(* The manager from its construction: from_config on every configuration   *)
(* of a small set, then the calls on the manager it returned                *)

\* the state before any manager exists
InitConfig ==
    /\ exact_rules = EmptyMap
    /\ pattern_rules = <<>>
    /\ cache = <<>>
    /\ stats = ZeroStats
    /\ last = Call("main", None, None, None, FALSE)
    /\ pc = Idle
    /\ loc = NoLocals
    /\ rw = Unlocked
    /\ mutex = None
    /\ cap = None
    /\ env = None
    /\ proc = None

\* ProxyManagerConfig values: cache_size from 0 up, with and without
\* initial rules
Configs ==
    [cache_size : 0..CacheSize,
     exact_rules : {EmptyMap, MapInsert(EmptyMap, ExactKeyOfPattern(PatHostPath), Target1)},
     pattern_rules : {<<>>, <<Rule(PatWildHost, Target2)>>}]

\* from_config that builds a cache of capacity 1 when cache_size is 0
from_config_Clamps(cfg) ==
    /\ cap = None
    /\ exact_rules' = cfg.exact_rules
    /\ pattern_rules' = cfg.pattern_rules
    /\ cache' = <<>>
    /\ stats' = ZeroStats
    /\ cap' = Some(IF cfg.cache_size = 0 THEN 1 ELSE cfg.cache_size)
    /\ last' = Call("from_config", None, Some(cfg), Some("Ok"), FALSE)
    /\ UNCHANGED <<pc, loc, rw, mutex, env, proc>>

\* ProxyManager::from_config
from_config(cfg) ==
    /\ cap = None
    /\ IF cfg.cache_size = 0
       THEN /\ last' = Call("from_config", None, Some(cfg), Some("Err"), FALSE)
            /\ UNCHANGED <<exact_rules, pattern_rules, cache, stats, cap, env, proc>>
       ELSE /\ exact_rules' = cfg.exact_rules
            /\ pattern_rules' = cfg.pattern_rules
            /\ cache' = <<>>
            /\ stats' = ZeroStats
            /\ cap' = Some(cfg.cache_size)
            /\ last' = Call("from_config", None, Some(cfg), Some("Ok"), FALSE)
    /\ UNCHANGED <<pc, loc, rw, mutex, env, proc>>

NextConfig ==
    \/ \E cfg \in Configs : from_config(cfg)
    \/ \E r \in Rules : IsSome(cap) /\ add_rule(r.pattern, r.target)
    \/ \E u \in Uris : IsSome(cap) /\ find_target(u)
    \/ \E u \in Uris : IsSome(cap) /\ find_target_with_match_info(u)
    \/ IsSome(cap) /\ clear
    \/ IsSome(cap) /\ clear_cache

SpecConfig == InitConfig /\ [][NextConfig]_vars

----------------------------------------------------------------------------
(* Properties *)

Parses(uri) == IsSome(Address_from_uri(uri))
AddressOf(uri) == Unwrap(Address_from_uri(uri))
KeyOf(uri) == ExactKey_from_address(AddressOf(uri))

\* what find_target(uri) returns when called in the current state
FindTargetResult(uri) ==
    FindTargetOutcome(exact_rules, pattern_rules, cache, stats, uri).result

\* what find_target_with_match_info(uri) returns when called in the current state
MatchInfoResult(uri) == MatchInfoOutcome(exact_rules, pattern_rules, stats, uri).result

\* what the uncached lookup algorithm returns for uri on the current rule tables
UncachedResult(uri) ==
    find_target_for_address_uncached(exact_rules, pattern_rules, AddressOf(uri)).result

\* the step just taken is the return of `op`
Returned(op) == last'.op = op

\* the step just taken is the return of `op` called on uri
ReturnedOn(op, uri) == last'.op = op /\ last'.uri = Some(uri)

Sum(st) == st.cache_hits + st.exact_hits + st.pattern_hits + st.misses

\* host matcher Exact, path matcher Exact or absent
ExactShape(pattern) ==
    /\ pattern.pattern_type.host.kind = "Exact"
    /\ \A i \in 1..Len(pattern.pattern_type.path) : pattern.pattern_type.path[i].kind = "Exact"

\* the pattern an exact-index entry stands for (as all_rules rebuilds it)
PatternOfKey(k) ==
    [protocol |-> k.protocol,
     port |-> k.port,
     pattern_type |->
        [host |-> [kind |-> "Exact", s |-> k.host],
         path |-> IF IsSome(k.path) THEN Some([kind |-> "Exact", s |-> Unwrap(k.path)])
                  ELSE None]]

\* the pattern rules matching an address, by position in the list
Matching(addr) ==
    {i \in 1..Len(pattern_rules) : AddressPattern_matches(pattern_rules[i].pattern, addr)}

\* the position of the matching pattern rule that was added first
Earliest(addr) == CHOOSE i \in Matching(addr) : \A j \in Matching(addr) : i <= j

\* C1: after every add_rule call returns, the cache is empty, whether the
\* rule was classified as exact or as pattern and whatever the cache held.
C1_AddRuleClearsCache == last.op = "add_rule" => cache = <<>>

\* C2: whenever no writer is in progress, every cache entry uri -> r has r
\* equal to what the uncached lookup returns for uri on the current rules.
C2_CacheCoherence ==
    rw.writer = None =>
        \A u \in Uris :
            CacheContains(cache, Uri_to_string(u)) =>
                Parses(u) /\ CachePeek(cache, Uri_to_string(u)) = UncachedResult(u)

\* C3: for every address matched (AddressPattern::matches) by an installed
\* exact rule R1 and by an installed pattern rule R2, find_target returns
\* R1.target.
C3_ExactPrecedence ==
    \A u \in Uris : \A k \in DOMAIN exact_rules : \A i \in 1..Len(pattern_rules) :
        ( /\ Parses(u)
          /\ AddressPattern_matches(PatternOfKey(k), AddressOf(u))
          /\ AddressPattern_matches(pattern_rules[i].pattern, AddressOf(u)) )
        => FindTargetResult(u) = Some(exact_rules[k])

\* C4 as claimed: add_rule of a rule of exact shape grows exact_rule_count()
\* by exactly one and leaves pattern_rule_count() alone; of any other shape,
\* the opposite.
C4_ClassificationCounts ==
    [][\A r \in Rules :
          (Returned("add_rule") /\ last'.rule = Some(r)) =>
              IF ExactShape(r.pattern)
              THEN /\ exact_rule_count' = exact_rule_count + 1
                   /\ pattern_rule_count' = pattern_rule_count
              ELSE /\ pattern_rule_count' = pattern_rule_count + 1
                   /\ exact_rule_count' = exact_rule_count]_vars

\* C4 amended: add_rule of a rule of exact shape leaves pattern_rule_count()
\* alone and grows exact_rule_count() by one when its key is not yet in the
\* index, by nothing when it is (the target is replaced); of any other
\* shape, pattern_rule_count() grows by one and exact_rule_count() stays.
C4_ClassificationCountsAmended ==
    [][\A r \in Rules :
          (Returned("add_rule") /\ last'.rule = Some(r)) =>
              IF ExactShape(r.pattern)
              THEN /\ pattern_rule_count' = pattern_rule_count
                   /\ exact_rule_count' =
                         exact_rule_count
                         + (IF ExactKeyOfPattern(r.pattern) \in DOMAIN exact_rules THEN 0 ELSE 1)
                   /\ exact_rules'[ExactKeyOfPattern(r.pattern)] = r.target
              ELSE /\ pattern_rule_count' = pattern_rule_count + 1
                   /\ exact_rule_count' = exact_rule_count]_vars

\* an exact rule was added over a key whose earlier target is still cached
C4_Witness ==
    /\ last.op = "add_rule"
    /\ last.rule = Some(Rule(PatHostPath, Target2))
    /\ pattern_rules = <<>>
    /\ CacheContains(cache, Uri_to_string(UriAbsA))
    /\ CachePeek(cache, Uri_to_string(UriAbsA)) = Some(Target1)

\* C5: pattern_rules keeps the rules in the order add_rule received them,
\* and whenever several pattern rules match a request address whose key is
\* not in the exact index, find_target and find_target_with_match_info
\* return the target of the one added first.
C5_InsertionOrder ==
    /\ [](\A u \in Uris :
            (Parses(u) /\ KeyOf(u) \notin DOMAIN exact_rules /\ Matching(AddressOf(u)) # {}) =>
                /\ FindTargetResult(u) = Some(pattern_rules[Earliest(AddressOf(u))].target)
                /\ IsSome(MatchInfoResult(u))
                /\ Unwrap(MatchInfoResult(u)).target =
                       pattern_rules[Earliest(AddressOf(u))].target)
    /\ [][\/ pattern_rules' = pattern_rules
          \/ Returned("clear") /\ pattern_rules' = <<>>
          \/ /\ Returned("add_rule")
             /\ pattern_rules' = Append(pattern_rules, Unwrap(last'.rule))]_vars

\* two overlapping pattern rules with different targets, and a find_target
\* on the address both match that returned the target of the first
C5_Witness ==
    /\ Len(pattern_rules) >= 2
    /\ Matching(AddressOf(UriAbsA)) = {1, 2}
    /\ pattern_rules[1].target # pattern_rules[2].target
    /\ KeyOf(UriAbsA) \notin DOMAIN exact_rules
    /\ last.op = "find_target"
    /\ last.uri = Some(UriAbsA)
    /\ last.result = Some(Some(pattern_rules[1].target))

\* C6: two find_target(uri) calls with no add_rule or clear between them
\* return equal results: no other call changes what find_target returns
\* for any uri.
C6_RepeatableLookup ==
    [][(~Returned("add_rule") /\ ~Returned("clear")) =>
          \A u \in Uris : FindTargetResult(u)' = FindTargetResult(u)]_vars

\* C7: a find_target that misses the cache on a parseable URI stores
\* uri -> result (none included) before returning; no call other than
\* clear, clear_cache, add_rule or an evicting insertion removes or changes
\* an entry; a find_target on a cached URI returns the cached value and is
\* counted as a cache hit.
C7_MissIsCached ==
    [][/\ \A u \in Uris :
            ReturnedOn("find_target", u) =>
                IF CacheContains(cache, Uri_to_string(u))
                THEN /\ last'.hit
                     /\ last'.result = Some(CachePeek(cache, Uri_to_string(u)))
                     /\ stats'.cache_hits = stats.cache_hits + 1
                ELSE /\ ~last'.hit
                     /\ Parses(u) =>
                          /\ CacheContains(cache', Uri_to_string(u))
                          /\ Some(CachePeek(cache', Uri_to_string(u))) = last'.result
       /\ ( /\ ~Returned("clear") /\ ~Returned("clear_cache") /\ ~Returned("add_rule")
            /\ ~(Returned("find_target") /\ ~last'.hit /\ Len(cache) = CacheSize) )
          => \A i \in 1..Len(cache) :
                /\ CacheContains(cache', cache[i].key)
                /\ CachePeek(cache', cache[i].key) = cache[i].value]_vars

\* a negative result was served from the cache
C7_Witness ==
    /\ last.op = "find_target"
    /\ last.hit
    /\ last.result = Some(None)

\* the counter the index outcome of a lookup goes to
IndexCounter(uri) ==
    IF KeyOf(uri) \in DOMAIN exact_rules THEN "exact_hits"
    ELSE IF Matching(AddressOf(uri)) # {} THEN "pattern_hits"
    ELSE "misses"

\* C8: a find_target on a parseable URI adds one to total_lookups and one to
\* exactly one other counter: cache_hits iff the URI string is cached,
\* otherwise the counter of the index outcome; so the difference between
\* total_lookups and the sum of the four is left as it was.
C8_LookupAccounting ==
    [][\A u \in Uris :
          (Parses(u) /\ ReturnedOn("find_target", u)) =>
              /\ stats' =
                    IF CacheContains(cache, Uri_to_string(u))
                    THEN [stats EXCEPT !.total_lookups = @ + 1, !.cache_hits = @ + 1]
                    ELSE [stats EXCEPT !.total_lookups = @ + 1, ![IndexCounter(u)] = @ + 1]
              /\ last'.hit = CacheContains(cache, Uri_to_string(u))
              /\ stats'.total_lookups - Sum(stats') = stats.total_lookups - Sum(stats)]_vars

\* a cache hit and an index hit were both counted, once each
C8_Witness ==
    /\ last.op = "find_target"
    /\ last.hit
    /\ stats.cache_hits = 1
    /\ stats.exact_hits + stats.pattern_hits = 1
    /\ stats.total_lookups = 2

\* C9: on a URI without a parseable host or scheme both lookups return none
\* and count a miss: misses grows by one together with total_lookups.
C9_UnparseableCountsAsMiss ==
    [][\A u \in Uris :
          ( /\ ~Parses(u)
            /\ ReturnedOn("find_target", u) \/ ReturnedOn("find_target_with_match_info", u) )
          => /\ last'.result = Some(None)
             /\ stats'.total_lookups = stats.total_lookups + 1
             /\ stats'.misses = stats.misses + 1]_vars

\* C10: every snapshot returned by stats() has
\* total_lookups >= cache_hits + exact_hits + pattern_hits + misses.
C10_SnapshotBound ==
    last.op = "stats" => Unwrap(last.result).total_lookups >= Sum(Unwrap(last.result))

\* the five counters of ProxyStats
Counters == {"cache_hits", "exact_hits", "pattern_hits", "misses", "total_lookups"}

\* C11 as claimed: no call other than reset_stats (add_rule, find_target,
\* find_target_with_match_info, clear, clear_cache, stats) ever lowers one of
\* the five counters.
C11_CountersMonotone ==
    [][~Returned("reset_stats") => \A c \in Counters : stats'[c] >= stats[c]]_vars

\* C11 amended: no call other than reset_stats and clear ever lowers one of
\* the five counters; clear, like reset_stats, sets all five to zero.
C11_CountersMonotoneAmended ==
    [][/\ (~Returned("reset_stats") /\ ~Returned("clear")) =>
              \A c \in Counters : stats'[c] >= stats[c]
       /\ (Returned("reset_stats") \/ Returned("clear")) => stats' = ZeroStats]_vars

\* counted lookups survived a clear_cache
C11_Witness ==
    /\ last.op = "clear_cache"
    /\ stats.total_lookups = 2
    /\ stats.cache_hits = 1

\* the last call was a rewrite; its arguments and its Result as an Option
RewriteCall == last.op = "to_uri_with_rewrite"
RewriteUri == Unwrap(last.uri)
RewriteTarget == Unwrap(last.rule).target
RewritePrefix == Unwrap(last.rule).matched_prefix
RewriteOut == Unwrap(last.result)

\* Uri::path_and_query as a string, "/" for a URI that has none
PathAndQueryOf(uri) == IF IsSome(uri.pq) THEN Unwrap(uri.pq) ELSE <<"/">>

\* Uri::path: the path-and-query up to the '?', "/" when that is empty
PathOf(uri) ==
    LET pq == PathAndQueryOf(uri)
        path == IF Find(pq, "?") = 0 THEN pq ELSE SubSeq(pq, 1, Find(pq, "?") - 1)
    IN IF path = <<>> THEN <<"/">> ELSE path

C16_Prepend ==
    (RewriteCall /\ IsSome(RewriteOut) /\ RewriteTarget.path_transform_mode = "Prepend") =>
        IF IsSome(RewriteTarget.path)
        THEN LET head == TrimEndMatches(Unwrap(RewriteTarget.path), "/")
             IN /\ Unwrap(RewriteOut).pq =
                      Some(IF head \o PathAndQueryOf(RewriteUri) = <<>> THEN <<"/">>
                           ELSE head \o PathAndQueryOf(RewriteUri))
                /\ (head = <<>> \/ head[Len(head)] # "/")
                /\ PathAndQueryOf(RewriteUri)[1] = "/"
        ELSE Unwrap(RewriteOut).pq = Some(PathAndQueryOf(RewriteUri))

\* the matched prefix with its trailing '*' and then its trailing '/' removed
CleanPrefix(mp) == TrimEndMatches(TrimEndMatches(mp, "*"), "/")

\* C17 as claimed: under Replace, when the target path and the matched
\* prefix are set and the request URI's path starts with the cleaned prefix,
\* the rewritten path-and-query is the target path (trailing '/' removed)
\* followed by what comes after the cleaned prefix in the request URI's
\* path-and-query; in every other case it is the Preserve result.
C17_Replace ==
    (RewriteCall /\ IsSome(RewriteOut) /\ RewriteTarget.path_transform_mode = "Replace") =>
        LET pq == PathAndQueryOf(RewriteUri)
            replaced ==
                TrimEndMatches(Unwrap(RewriteTarget.path), "/")
                \o SubSeq(pq, Len(CleanPrefix(Unwrap(RewritePrefix))) + 1, Len(pq))
        IN IF /\ IsSome(RewriteTarget.path)
              /\ IsSome(RewritePrefix)
              /\ StartsWith(PathOf(RewriteUri), CleanPrefix(Unwrap(RewritePrefix)))
           THEN Unwrap(RewriteOut).pq = Some(IF replaced = <<>> THEN <<"/">> ELSE replaced)
           ELSE Unwrap(RewriteOut).pq = Some(pq)

\* C17 amended: the test is on the request URI's path-and-query, query
\* included: when it starts with the cleaned prefix the rewritten
\* path-and-query is the target path (trailing '/' removed) followed by what
\* comes after the cleaned prefix; in every other case it is the Preserve
\* result.
C17_ReplaceAmended ==
    (RewriteCall /\ IsSome(RewriteOut) /\ RewriteTarget.path_transform_mode = "Replace") =>
        LET pq == PathAndQueryOf(RewriteUri)
            replaced ==
                TrimEndMatches(Unwrap(RewriteTarget.path), "/")
                \o SubSeq(pq, Len(CleanPrefix(Unwrap(RewritePrefix))) + 1, Len(pq))
        IN IF /\ IsSome(RewriteTarget.path)
              /\ IsSome(RewritePrefix)
              /\ StartsWith(pq, CleanPrefix(Unwrap(RewritePrefix)))
           THEN Unwrap(RewriteOut).pq = Some(IF replaced = <<>> THEN <<"/">> ELSE replaced)
           ELSE Unwrap(RewriteOut).pq = Some(pq)

\* the prefix "/p/*" was replaced by "/n" in /p/x?q, the query kept
C17_Witness ==
    /\ RewriteCall
    /\ RewriteUri = UriPXQ
    /\ RewriteTarget.path_transform_mode = "Replace"
    /\ RewriteTarget.path = Some(<<"/", "n", "/">>)
    /\ RewritePrefix = Some(<<"/", "p", "/", "*">>)
    /\ IsSome(RewriteOut)
    /\ Unwrap(RewriteOut).pq = Some(<<"/", "n", "/", "x", "?", "q">>)

Scenario4Installed ==
    /\ exact_rules = MapInsert(EmptyMap, ExactKeyOfPattern(PatApiV1), TargetV2)
    /\ pattern_rules = <<>>

\* http://b:3000/api/v2/users
UriB3000V2Users == [scheme |-> Some("http"), host |-> Some(<<"b">>), port |-> Some(3000),
                    pq |-> Some(PathApiV2Users)]

\* C12: with the single rule (http, example.com, path /api/v1) -> b:3000
\* path /api/v2 mode Replace, handle_request on
\* http://example.com/api/v1/users leaves the request with the URI
\* http://b:3000/api/v2/users.
C12_Scenario4 ==
    [][(Scenario4Installed /\ ReturnedOn("handle_request", UriV1Users)) =>
          last'.result = Some(UriB3000V2Users)]_vars

\* C13: handle_request leaves the request with the rewritten URI when the
\* lookup matched and the rewrite succeeded, with its own URI when there was
\* no match or the rewrite failed; it never changes the rule tables or the
\* cache.
C13_HandleRequest ==
    [][\A u \in HandlerUris :
          ReturnedOn("handle_request", u) =>
              /\ last'.result =
                    Some(IF IsSome(MatchInfoResult(u))
                         THEN LET rewritten ==
                                      to_uri_with_rewrite(Unwrap(MatchInfoResult(u)).target, u,
                                          Unwrap(MatchInfoResult(u)).matched_path_prefix)
                              IN IF IsSome(rewritten) THEN Unwrap(rewritten) ELSE u
                         ELSE u)
              /\ UNCHANGED <<exact_rules, pattern_rules, cache>>]_vars

\* a request matched a rule whose target cannot be built into a URI and
\* kept its own URI, the hit counted
C13_Witness ==
    /\ last.op = "handle_request"
    /\ last.uri = Some(UriV1Users)
    /\ last.result = Some(UriV1Users)
    /\ exact_rules = EmptyMap
    /\ pattern_rules = <<Rule(PatExampleStar, TargetBad)>>
    /\ stats.pattern_hits = 1

\* C14: should_intercept returns false without CA and then touches neither
\* the counters nor the cache; with CA it returns true when the lookup
\* algorithm finds no rule for the request URI, true when the rule found has
\* an https target and false when it has an http target.
C14_InterceptTable ==
    [][\A u \in HandlerUris :
          ReturnedOn("should_intercept", u) =>
              IF ~Unwrap(last'.result).with_ca
              THEN /\ ~Unwrap(last'.result).intercept
                   /\ UNCHANGED <<stats, cache>>
              ELSE Unwrap(last'.result).intercept =
                       IF Parses(u) /\ IsSome(UncachedResult(u))
                       THEN Unwrap(UncachedResult(u)).protocol = "Https"
                       ELSE TRUE]_vars

C20_MatchesTable ==
    last.op = "matches" =>
        LET pattern == Unwrap(last.rule).pattern
            address == Unwrap(last.rule).address
        IN Unwrap(last.result) =
              ( /\ pattern.protocol = address.protocol
                /\ (pattern.port = None \/ address.port = pattern.port)
                /\ PatternMatcher_matches(pattern.pattern_type.host, address.host)
                /\ \/ pattern.pattern_type.path = None
                   \/ /\ address.path # None
                      /\ PatternMatcher_matches(Unwrap(pattern.pattern_type.path),
                                                Unwrap(address.path)) )

\* a pattern without port and without path matcher matched an address with
\* a port and without path
C20_Witness ==
    /\ last.op = "matches"
    /\ Unwrap(last.result)
    /\ Unwrap(last.rule).pattern.port = None
    /\ Unwrap(last.rule).pattern.pattern_type.path = None
    /\ Unwrap(last.rule).address.port = Some(443)
    /\ Unwrap(last.rule).address.path = None

\* C21: a string without the "re:" prefix becomes a Wildcard iff it
\* contains '*' and an Exact otherwise; an Exact matches the equal string
\* only (case included); a Wildcard that starts with '*' matches exactly
\* the values ending with the rest of the pattern, one that does not start
\* but ends with '*' exactly the values starting with what precedes that
\* '*', and one whose '*' are all interior only the value equal to the
\* whole pattern.
C21_PatternMatcher ==
    last.op = "PatternMatcher::matches" =>
        LET s == Unwrap(last.rule).pattern
            value == Unwrap(last.rule).value
            got == Unwrap(last.result)
            star == \E i \in 1..Len(s) : s[i] = "*"
        IN (Len(s) < 3 \/ SubSeq(s, 1, 3) # <<"r", "e", ":">>) =>
              /\ got.kind = IF star THEN "Wildcard" ELSE "Exact"
              /\ got.matched =
                    IF ~star THEN value = s
                    ELSE IF s[1] = "*"
                         THEN \E head \in MatcherValues : value = head \o SubSeq(s, 2, Len(s))
                    ELSE IF s[Len(s)] = "*"
                         THEN \E tail \in MatcherValues :
                                 value = SubSeq(s, 1, Len(s) - 1) \o tail
                    ELSE value = s

\* the Wildcard a*b, whose '*' is interior, matched the value "a*b"
C21_Witness ==
    /\ last.op = "PatternMatcher::matches"
    /\ Unwrap(last.rule).pattern = <<"a", "*", "b">>
    /\ Unwrap(last.rule).value = <<"a", "*", "b">>
    /\ Unwrap(last.result) = [kind |-> "Wildcard", matched |-> TRUE]

\* C22: the cache never holds more entries than the capacity given to
\* from_config, whatever find_target, add_rule, clear and clear_cache calls
\* were made, and the capacity of a constructed manager never changes.
C22_CacheCapacity ==
    /\ [](IsSome(cap) => Len(cache) <= Unwrap(cap))
    /\ [][IsSome(cap) => cap' = cap]_vars

\* a manager of capacity 1 looked up a second URI: the first entry was
\* evicted for it
C22_Witness ==
    /\ cap = Some(1)
    /\ Len(cache) = 1
    /\ last.op = "find_target"
    /\ ~last.hit
    /\ stats.total_lookups = 2
    /\ stats.cache_hits = 0
    /\ cache[1].key = Uri_to_string(Unwrap(last.uri))

\* C23: from_config with cache_size = 0 returns an error and no manager
\* exists afterwards; with cache_size >= 1 it returns a manager with that
\* capacity, an empty cache, all counters zero and the rule tables of the
\* config.
C23_FromConfig ==
    last.op = "from_config" =>
        IF Unwrap(last.rule).cache_size = 0
        THEN last.result = Some("Err") /\ cap = None
        ELSE /\ last.result = Some("Ok")
             /\ cap = Some(Unwrap(last.rule).cache_size)
             /\ cache = <<>>
             /\ stats = ZeroStats
             /\ exact_rules = Unwrap(last.rule).exact_rules
             /\ pattern_rules = Unwrap(last.rule).pattern_rules

\* from_config refused a config with cache_size 0 that carried rules
C23_Witness ==
    /\ last.op = "from_config"
    /\ Unwrap(last.rule).cache_size = 0
    /\ Unwrap(last.rule).pattern_rules # <<>>
    /\ last.result = Some("Err")
    /\ cap = None

\* every cache entry is a negative result
AllCachedNone == \A i \in 1..Len(cache) : cache[i].value = None

TablesTarget(uri) ==
    IF ~Parses(uri) THEN None
    ELSE IF KeyOf(uri) \in DOMAIN exact_rules THEN Some(exact_rules[KeyOf(uri)])
    ELSE IF Matching(AddressOf(uri)) # {}
         THEN Some(pattern_rules[Earliest(AddressOf(uri))].target)
    ELSE None

\* C25: find_target_with_match_info leaves the cache (contents and recency
\* order), exact_rules and pattern_rules as they were, and what it returns
\* is determined by the URI and the rule tables, whatever the cache holds.
C25_MatchInfoUncached ==
    [][\A u \in Uris :
          ReturnedOn("find_target_with_match_info", u) =>
              /\ UNCHANGED <<cache, exact_rules, pattern_rules>>
              /\ IsSome(Unwrap(last'.result)) = IsSome(TablesTarget(u))
              /\ IsSome(TablesTarget(u)) =>
                     Unwrap(Unwrap(last'.result)).target = Unwrap(TablesTarget(u))]_vars

\* the lookup returned the target of a rule while the cache still held a
\* negative result for the same URI
C25_Witness ==
    /\ last.op = "find_target_with_match_info"
    /\ last.uri = Some(UriAuthA)
    /\ IsSome(Unwrap(last.result))
    /\ CacheContains(cache, Uri_to_string(UriAuthA))
    /\ CachePeek(cache, Uri_to_string(UriAuthA)) = None

----------------------------------------------------------------------------
(* proxy-fork-cli: args.rs, config.rs, lib.rs, main.rs,                     *)
(* commands/start_proxy.rs.  Strings of the command line and of the TOML    *)
(* files are sequences of characters; paths are kept as they are given.     *)

Str_http == <<"h", "t", "t", "p">>
Str_https == <<"h", "t", "t", "p", "s">>
Str_ftp == <<"f", "t", "p">>
Str_prepend == <<"p", "r", "e", "p", "e", "n", "d">>
Str_replace == <<"r", "e", "p", "l", "a", "c", "e">>
Str_preserve == <<"p", "r", "e", "s", "e", "r", "v", "e">>
Str_bogus == <<"b", "o", "g", "u", "s">>

\* config.rs default_cache_size, default_listen_host, default_listen_port
default_cache_size == 1000
default_listen_host == <<"1", "2", "7", ".", "0", ".", "0", ".", "1">>
default_listen_port == 7898

\* str::parse::<u16>: an optional '+', then at least one digit, the value
\* at most 65535; None for Err
parse_u16(s) ==
    LET d == IF Len(s) > 0 /\ s[1] = "+" THEN SubSeq(s, 2, Len(s)) ELSE s
    IN IF Len(d) = 0 \/ \E i \in 1..Len(d) : ~IsDigit(d[i]) THEN None
       ELSE IF Len(d) > 5 /\ \E i \in 1..(Len(d) - 5) : d[i] # "0" THEN None
       ELSE IF DecimalValue(d) > 65535 THEN None
       ELSE Some(DecimalValue(d))

\* config.rs split_host_port: rsplit_once(':'), then the port parsed as u16
split_host_port(s) ==
    IF RFind(s, ":") = 0 THEN None
    ELSE LET port == parse_u16(SubSeq(s, RFind(s, ":") + 1, Len(s)))
         IN IF ~IsSome(port) THEN None
            ELSE Some([host |-> SubSeq(s, 1, RFind(s, ":") - 1), port |-> Unwrap(port)])

\* FileConfig::default
FileConfig_default ==
    [cert |-> None, key |-> None, listen |-> None, noca |-> None, proxy_manager |-> None]

\* config.rs merge_file_cfg: every field that other sets replaces base's
merge_file_cfg(base, other) ==
    [cert |-> IF IsSome(other.cert) THEN other.cert ELSE base.cert,
     key |-> IF IsSome(other.key) THEN other.key ELSE base.key,
     listen |-> IF IsSome(other.listen) THEN other.listen ELSE base.listen,
     noca |-> IF IsSome(other.noca) THEN other.noca ELSE base.noca,
     proxy_manager |->
        IF ~IsSome(base.proxy_manager) THEN other.proxy_manager
        ELSE IF ~IsSome(other.proxy_manager) THEN base.proxy_manager
        ELSE LET a == Unwrap(base.proxy_manager)
                 b == Unwrap(other.proxy_manager)
             IN Some([cache_size |-> IF IsSome(b.cache_size) THEN b.cache_size ELSE a.cache_size,
                      rules |-> IF IsSome(b.rules) THEN b.rules ELSE a.rules])]

\* A path of the file system: whether it exists, and what reading it and
\* parsing it as TOML gives (None when either fails)
File(exists, content) == [exists |-> exists, content |-> content]
Absent == File(FALSE, None)
Unparsable == File(TRUE, None)

\* config.rs read_toml_file: Some(FileConfig), or None for Err
read_toml_file(f) == f.content

\* config.rs find_first_existing
find_first_existing(candidates) ==
    IF \E i \in 1..Len(candidates) : candidates[i].exists
    THEN Some(candidates[CHOOSE i \in 1..Len(candidates) :
                            /\ candidates[i].exists
                            /\ \A j \in 1..(i - 1) : ~candidates[j].exists])
    ELSE None

\* config.rs load_start_proxy_config, lines 98-115: the three files read in
\* turn, a later one over an earlier one; a user or current-directory file
\* that cannot be read is passed over, a --config file that cannot be read
\* is an error (None)
MergedFileConfig(e) ==
    LET c0 == FileConfig_default
        c1 == IF e.user.exists /\ IsSome(read_toml_file(e.user))
              THEN merge_file_cfg(c0, Unwrap(read_toml_file(e.user))) ELSE c0
        cwd == find_first_existing(e.cwd)
        c2 == IF IsSome(cwd) /\ IsSome(read_toml_file(Unwrap(cwd)))
              THEN merge_file_cfg(c1, Unwrap(read_toml_file(Unwrap(cwd)))) ELSE c1
    IN IF IsSome(e.config) /\ Unwrap(e.config).exists
       THEN IF IsSome(read_toml_file(Unwrap(e.config)))
            THEN Some(merge_file_cfg(c2, Unwrap(read_toml_file(Unwrap(e.config)))))
            ELSE None
       ELSE Some(c2)

\* config.rs load_start_proxy_config: Some(AppConfig), or None for Err
LoadStartProxyConfig(e, start_args) ==
    IF ~IsSome(MergedFileConfig(e)) THEN None
    ELSE LET file_cfg == Unwrap(MergedFileConfig(e))
             listen == IF IsSome(start_args.listen) THEN start_args.listen ELSE file_cfg.listen
             pm_section == IF IsSome(file_cfg.proxy_manager) THEN Unwrap(file_cfg.proxy_manager)
                           ELSE [rules |-> None, cache_size |-> None]
             rules == IF IsSome(pm_section.rules) THEN Unwrap(pm_section.rules) ELSE <<>>
         IN Some([ca_cert |-> IF IsSome(start_args.ca_cert) THEN start_args.ca_cert ELSE file_cfg.cert,
                  ca_key |-> IF IsSome(start_args.ca_key) THEN start_args.ca_key ELSE file_cfg.key,
                  listen |-> IF IsSome(listen) /\ IsSome(split_host_port(Unwrap(listen)))
                             THEN Unwrap(split_host_port(Unwrap(listen)))
                             ELSE [host |-> default_listen_host, port |-> default_listen_port],
                  enable_ca |-> ~start_args.noca
                                /\ ~(IF IsSome(file_cfg.noca) THEN Unwrap(file_cfg.noca) ELSE FALSE),
                  enable_sysproxy |-> start_args.enable_sysproxy,
                  proxy_manager |->
                      [cache_size |-> IF IsSome(pm_section.cache_size)
                                      THEN Unwrap(pm_section.cache_size) ELSE default_cache_size,
                       rules |-> rules \o start_args.rules]])

\* One comma-separated part of a --rule value: key=value, or a part
\* without '='
Seg(k, v) == [eq |-> TRUE, k |-> k, v |-> v]
Malformed == [eq |-> FALSE, k |-> "", v |-> <<>>]

\* args.rs parse_rule_arg, the map it fills: the last value given for key
RuleArgGet(segs, k) ==
    IF \E i \in 1..Len(segs) : segs[i].k = k
    THEN Some(segs[CHOOSE i \in 1..Len(segs) :
                      /\ segs[i].k = k
                      /\ \A j \in (i + 1)..Len(segs) : segs[j].k # k].v)
    ELSE None

\* args.rs parse_rule_arg: Some(RuleItem), or None for Err
parse_rule_arg(segs) ==
    IF \E i \in 1..Len(segs) : ~segs[i].eq THEN None
    ELSE IF ~IsSome(RuleArgGet(segs, "protocol")) THEN None
    ELSE IF Unwrap(RuleArgGet(segs, "protocol")) \notin {Str_http, Str_https} THEN None
    ELSE IF ~IsSome(RuleArgGet(segs, "host")) THEN None
    ELSE IF ~IsSome(RuleArgGet(segs, "target_host")) THEN None
    ELSE Some([protocol |-> Unwrap(RuleArgGet(segs, "protocol")),
               host |-> Unwrap(RuleArgGet(segs, "host")),
               path |-> RuleArgGet(segs, "path"),
               port |-> IF IsSome(RuleArgGet(segs, "port"))
                        THEN parse_u16(Unwrap(RuleArgGet(segs, "port"))) ELSE None,
               target_protocol |-> RuleArgGet(segs, "target_protocol"),
               target_host |-> Unwrap(RuleArgGet(segs, "target_host")),
               target_port |-> IF IsSome(RuleArgGet(segs, "target_port"))
                               THEN parse_u16(Unwrap(RuleArgGet(segs, "target_port"))) ELSE None,
               path_transform |-> RuleArgGet(segs, "path_transform"),
               target_path |-> RuleArgGet(segs, "target_path")])

\* Regex::new on the expressions used here: of their constructs only a
\* group that is opened fails to compile, it is never closed
RegexCompiles(re) == ~Contains(re, "(")

\* PatternMatcher::from_str returns Ok
PatternMatcher_from_str_ok(s) ==
    StartsWith(s, <<"r", "e", ":">>) => RegexCompiles(SubSeq(s, 4, Len(s)))

\* str::to_lowercase on ASCII letters
UpperLetters == <<"A", "B", "C", "D", "E", "F", "G", "H", "I", "J", "K", "L", "M",
                  "N", "O", "P", "Q", "R", "S", "T", "U", "V", "W", "X", "Y", "Z">>
LowerLetters == <<"a", "b", "c", "d", "e", "f", "g", "h", "i", "j", "k", "l", "m",
                  "n", "o", "p", "q", "r", "s", "t", "u", "v", "w", "x", "y", "z">>
to_lowercase(s) ==
    [i \in 1..Len(s) |->
        IF \E k \in 1..26 : UpperLetters[k] = s[i]
        THEN LowerLetters[CHOOSE k \in 1..26 : UpperLetters[k] = s[i]]
        ELSE s[i]]

\* PathTransformMode::from_str: Some(mode), or None for Err
PathTransformMode_from_str(s) ==
    CASE to_lowercase(s) = Str_preserve -> Some("Preserve")
      [] to_lowercase(s) = Str_prepend -> Some("Prepend")
      [] to_lowercase(s) = Str_replace -> Some("Replace")
      [] OTHER -> None

\* start_proxy.rs rule_item_to_runtime: Some(pattern and target), or None
rule_item_to_runtime(r) ==
    IF r.protocol \notin {Str_http, Str_https} THEN None
    ELSE IF ~PatternMatcher_from_str_ok(r.host) THEN None
    ELSE IF IsSome(r.path) /\ ~PatternMatcher_from_str_ok(Unwrap(r.path)) THEN None
    ELSE Some([pattern |-> AddressPattern_new(IF r.protocol = Str_http THEN "Http" ELSE "Https",
                                              r.host, r.port, r.path),
               target |-> [protocol |-> IF IsSome(r.target_protocol)
                                           /\ Unwrap(r.target_protocol) = Str_https
                                        THEN "Https" ELSE "Http",
                           host |-> r.target_host,
                           port |-> r.target_port,
                           path |-> r.target_path,
                           path_transform_mode |->
                               IF IsSome(r.path_transform)
                                  /\ IsSome(PathTransformMode_from_str(Unwrap(r.path_transform)))
                               THEN Unwrap(PathTransformMode_from_str(Unwrap(r.path_transform)))
                               ELSE "Preserve"]])

\* start_proxy.rs lines 118-125: add_rule for every rule of the
\* configuration that rule_item_to_runtime accepts, the others passed over
RECURSIVE InstallRules(_, _, _)
InstallRules(er, pr, rules) ==
    IF rules = <<>> THEN [exact_rules |-> er, pattern_rules |-> pr]
    ELSE LET rt == rule_item_to_runtime(Head(rules))
         IN IF ~IsSome(rt) THEN InstallRules(er, pr, Tail(rules))
            ELSE IF is_exact(Unwrap(rt).pattern)
                 THEN InstallRules(MapInsert(er, ExactKeyOfPattern(Unwrap(rt).pattern),
                                             Unwrap(rt).target),
                                   pr, Tail(rules))
                 ELSE InstallRules(er, Append(pr, Rule(Unwrap(rt).pattern, Unwrap(rt).target)),
                                   Tail(rules))

\* RuleItem values of the TOML files
RuleItem(protocol, host, path_transform) ==
    [protocol |-> protocol, host |-> host, path |-> None, port |-> None,
     target_protocol |-> None, target_host |-> <<"t", "1">>, target_port |-> None,
     path_transform |-> path_transform, target_path |-> None]

HostBadRegex == <<"r", "e", ":", "(">>

RuleGood == RuleItem(Str_http, HostA, None)
RuleWild == RuleItem(Str_http, HostStar, None)
RuleSecure == RuleItem(Str_https, HostStar, None)
RuleBadProtocol == RuleItem(Str_ftp, HostA, None)
RuleBadRegex == RuleItem(Str_https, HostBadRegex, None)
RuleBadTransform == RuleItem(Str_http, HostStar, Some(Str_bogus))

\* listen values: host:port with a one-digit port, a host alone, a port
\* that is not a number, a port above 65535
ListenOf(d) == <<"h", ":", d>>
ListenNoPort == <<"h">>
ListenBadPort == <<"h", ":", "x">>
ListenBigPort == <<"h", ":", "7", "0", "0", "0", "0">>

\* The contents a file of one source may have: tag names its cert and key,
\* d its listen port, n its cache_size, good its list of valid rules, bad
\* its invalid rule
FileConfigsOf(tag, d, n, good, bad) ==
    {FileConfig_default,
     [FileConfig_default EXCEPT !.cert = Some(tag), !.key = Some(tag)],
     [FileConfig_default EXCEPT !.listen = Some(ListenOf(d)), !.noca = Some(FALSE)],
     [FileConfig_default EXCEPT !.listen = Some(ListenBadPort), !.noca = Some(TRUE)],
     [FileConfig_default EXCEPT
         !.proxy_manager = Some([cache_size |-> Some(n), rules |-> Some(good)])],
     [FileConfig_default EXCEPT
         !.proxy_manager = Some([cache_size |-> None, rules |-> Some(<<bad>>)])],
     [FileConfig_default EXCEPT
         !.proxy_manager = Some([cache_size |-> Some(0), rules |-> None])]}

FilesOf(tag, d, n, good, bad) ==
    {Absent, Unparsable} \cup {File(TRUE, Some(fc)) : fc \in FileConfigsOf(tag, d, n, good, bad)}

\* --rule values, split into their parts
RuleArgGood == <<Seg("protocol", Str_http), Seg("host", HostA), Seg("target_host", <<"t", "1">>)>>
RuleArgBadProtocol == <<Seg("protocol", Str_ftp), Seg("host", HostA), Seg("target_host", <<"t", "1">>)>>
RuleArgBadRegex == <<Seg("protocol", Str_https), Seg("host", HostBadRegex), Seg("target_host", <<"t", "1">>)>>
RuleArgWild == <<Seg("protocol", Str_http), Seg("host", HostStar), Seg("target_host", <<"t", "2">>)>>
RuleArgMalformed == <<Seg("protocol", Str_http), Malformed>>
RuleArgBadValues ==
    <<Seg("protocol", Str_https), Seg("host", HostStar), Seg("target_host", <<"t", "2">>),
      Seg("target_protocol", Str_ftp), Seg("path_transform", Str_bogus), Seg("port", <<"x">>)>>

\* The command line of start-proxy, before clap has parsed the --rule values
CommandLine(ca_cert, ca_key, listen, rules, noca, enable_sysproxy) ==
    [ca_cert |-> ca_cert, ca_key |-> ca_key, listen |-> listen, rules |-> rules, noca |-> noca,
     enable_sysproxy |-> enable_sysproxy]

CommandLines ==
    {CommandLine(None, None, None, <<>>, FALSE, FALSE),
     CommandLine(None, None, None, <<RuleArgWild>>, FALSE, TRUE),
     CommandLine(Some("cli"), Some("cli"), Some(ListenOf("5")), <<RuleArgGood>>, TRUE, TRUE),
     CommandLine(None, None, Some(ListenNoPort), <<>>, FALSE, FALSE),
     CommandLine(Some("cli"), None, Some(ListenBigPort), <<>>, FALSE, FALSE),
     CommandLine(None, Some("cli"), None, <<RuleArgBadRegex>>, FALSE, FALSE),
     CommandLine(None, None, None, <<RuleArgBadProtocol>>, FALSE, FALSE),
     CommandLine(None, None, None, <<RuleArgGood, RuleArgMalformed>>, TRUE, FALSE),
     CommandLine(None, None, None, <<RuleArgBadValues>>, FALSE, FALSE)}

\* What the process is started with: the user-directory config.toml, the
\* two candidates of the current directory, the --config file if the flag
\* is given, and the command line
Envs ==
    [user : FilesOf("user", "1", 1, <<RuleGood>>, RuleBadProtocol),
     cwd : {<<f, g>> : f \in FilesOf("cwd", "2", 2, <<RuleWild, RuleGood>>, RuleBadRegex),
                       g \in {Absent, File(TRUE, Some([FileConfig_default EXCEPT
                                                         !.cert = Some("cwd2"), !.key = Some("cwd2")]))}},
     config : {None} \cup {Some(f) : f \in FilesOf("config", "3", 3, <<RuleSecure, RuleWild>>, RuleBadTransform)},
     args : CommandLines]

\* The process: where it is, the parsed arguments and the configuration
\* once it has them, its exit code and why it ended; once start_proxy has
\* built them, the CA given to the proxy (ca), the handler's with_ca and
\* the add_rule calls made (calls); whether the operating system's proxy
\* setting is on (sysproxy); the CA whose gen_server_config was called
\* last (called)
Process(phase, args, cfg, exit_code, cause) ==
    [phase |-> phase, args |-> args, cfg |-> cfg, exit_code |-> exit_code, cause |-> cause,
     ca |-> None, with_ca |-> None, calls |-> <<>>, sysproxy |-> FALSE, called |-> None]

\* the process before main runs
InitCli ==
    /\ exact_rules = EmptyMap
    /\ pattern_rules = <<>>
    /\ cache = <<>>
    /\ stats = ZeroStats
    /\ last = Call("exec", None, None, None, FALSE)
    /\ pc = Idle
    /\ loc = NoLocals
    /\ rw = Unlocked
    /\ mutex = None
    /\ cap = None
    /\ env \in {Some(e) : e \in Envs}
    /\ proc = Some(Process("start", None, None, None, "none"))

\* main.rs line 9, CliArgs::parse: every --rule value goes through
\* parse_rule_arg; clap ends the process with code 2 when one is rejected
parse ==
    /\ IsSome(proc) /\ Unwrap(proc).phase = "start"
    /\ LET cl == Unwrap(env).args
       IN IF \E i \in 1..Len(cl.rules) : ~IsSome(parse_rule_arg(cl.rules[i]))
          THEN /\ proc' = Some(Process("exited", None, None, Some(2), "usage"))
               /\ last' = Call("parse", None, Some(cl), Some("Err"), FALSE)
          ELSE LET start_args == [cl EXCEPT !.rules = [i \in 1..Len(cl.rules) |->
                                                          Unwrap(parse_rule_arg(cl.rules[i]))]]
               IN /\ proc' = Some(Process("parsed", Some(start_args), None, None, "none"))
                  /\ last' = Call("parse", None, Some(cl), Some("Ok"), FALSE)
    /\ UNCHANGED <<exact_rules, pattern_rules, cache, stats, pc, loc, rw, mutex, cap, env>>

\* lib.rs start_proxy line 24 with main.rs lines 22-27: the configuration
\* is loaded; on Err run returns it, main logs it and returns
load_start_proxy_config ==
    /\ IsSome(proc) /\ Unwrap(proc).phase = "parsed"
    /\ LET start_args == Unwrap(Unwrap(proc).args)
           r == LoadStartProxyConfig(Unwrap(env), start_args)
       IN IF IsSome(r)
          THEN /\ proc' = Some(Process("loaded", Some(start_args), r, None, "none"))
               /\ last' = Call("load_start_proxy_config", None, Some(start_args), Some("Ok"), FALSE)
          ELSE /\ proc' = Some(Process("exited", Some(start_args), None, Some(0), "config"))
               /\ last' = Call("load_start_proxy_config", None, Some(start_args), Some("Err"), FALSE)
    /\ UNCHANGED <<exact_rules, pattern_rules, cache, stats, pc, loc, rw, mutex, cap, env>>

\* commands/start_proxy.rs lines 118-125: the add_rule calls of the
\* startup loop, in the order they are made (a rule item that
\* rule_item_to_runtime rejects makes no call)
RECURSIVE AddRuleCalls(_)
AddRuleCalls(rules) ==
    IF rules = <<>>
    THEN <<>>
    ELSE LET rt == rule_item_to_runtime(Head(rules))
         IN (IF IsSome(rt) THEN <<Unwrap(rt)>> ELSE <<>>) \o AddRuleCalls(Tail(rules))

\* commands/start_proxy.rs lines 73-107: the CA handed to the proxy
InstalledCa(cfg) == IF cfg.enable_ca THEN "Openssl" ELSE "NoCa"

\* commands/start_proxy.rs start_proxy up to the point where the proxy
\* serves, with main.rs lines 22-27.  ca_ok: the CA certificate and key
\* load; sys_ok: set_system_proxy succeeds; bind_ok: the listening socket
\* can be bound.  The expect calls panic (exit code 101); an Err of
\* set_system_proxy is logged; an Err of proxy.start() is logged and
\* start_proxy returns Ok.
start_proxy(ca_ok, sys_ok, bind_ok) ==
    /\ IsSome(proc) /\ Unwrap(proc).phase = "loaded"
    /\ LET p == Unwrap(proc)
           cfg == Unwrap(p.cfg)
           installed == InstallRules(EmptyMap, <<>>, cfg.proxy_manager.rules)
           built(phase, code, cause) ==
               [Process(phase, p.args, p.cfg, code, cause) EXCEPT
                   !.ca = Some(InstalledCa(cfg)),
                   !.with_ca = Some(cfg.enable_ca),
                   !.calls = AddRuleCalls(cfg.proxy_manager.rules),
                   !.sysproxy = cfg.enable_sysproxy /\ sys_ok]
       IN IF cfg.enable_ca /\ ~ca_ok
          THEN /\ proc' = Some(Process("exited", p.args, p.cfg, Some(101), "ca"))
               /\ last' = Call("start_proxy", None, p.cfg, Some("panic"), FALSE)
               /\ UNCHANGED <<exact_rules, pattern_rules, cache, stats, cap>>
          ELSE IF cfg.proxy_manager.cache_size = 0
          THEN /\ proc' = Some(Process("exited", p.args, p.cfg, Some(101), "manager"))
               /\ last' = Call("start_proxy", None, p.cfg, Some("panic"), FALSE)
               /\ UNCHANGED <<exact_rules, pattern_rules, cache, stats, cap>>
          ELSE /\ exact_rules' = installed.exact_rules
               /\ pattern_rules' = installed.pattern_rules
               /\ cache' = <<>>
               /\ stats' = ZeroStats
               /\ cap' = Some(cfg.proxy_manager.cache_size)
               /\ IF bind_ok
                  THEN /\ proc' = Some(built("listening", None, "none"))
                       /\ last' = Call("start_proxy", None, p.cfg, None, FALSE)
                  ELSE /\ proc' = Some(built("exited", Some(0), "bind"))
                       /\ last' = Call("start_proxy", None, p.cfg, Some("Ok"), FALSE)
    /\ UNCHANGED <<pc, loc, rw, mutex, env>>

\* commands/start_proxy.rs shutdown_signal: Ctrl+C ends proxy.start()
\* after switching the system proxy off when start_proxy had configured
\* one (sys_ok: set_system_proxy succeeds, its Err is logged);
\* start_proxy returns Ok and main returns
ctrl_c(sys_ok) ==
    /\ IsSome(proc) /\ Unwrap(proc).phase = "listening"
    /\ LET p == Unwrap(proc)
       IN proc' = Some([p EXCEPT !.phase = "exited", !.exit_code = Some(0), !.cause = "shutdown",
                                 !.sysproxy = IF Unwrap(p.cfg).enable_sysproxy /\ sys_ok
                                              THEN FALSE ELSE p.sysproxy])
    /\ last' = Call("start_proxy", None, Unwrap(proc).cfg, Some("Ok"), FALSE)
    /\ UNCHANGED <<exact_rules, pattern_rules, cache, stats, pc, loc, rw, mutex, cap, env>>

NextCli ==
    \/ parse
    \/ load_start_proxy_config
    \/ \E ca_ok \in BOOLEAN : \E sys_ok \in BOOLEAN : \E bind_ok \in BOOLEAN :
           start_proxy(ca_ok, sys_ok, bind_ok)
    \/ \E sys_ok \in BOOLEAN : ctrl_c(sys_ok)

SpecCli == InitCli /\ [][NextCli]_vars

\* what a file sets for a field: nothing when it is absent or unreadable
SetBy(f, field) == IF f.exists /\ IsSome(f.content) THEN Unwrap(f.content)[field] ELSE None

\* the cache_size a file sets
CacheSizeSetBy(f) ==
    IF IsSome(SetBy(f, "proxy_manager")) THEN Unwrap(SetBy(f, "proxy_manager")).cache_size ELSE None

\* the three file sources of an environment, highest precedence first
FileSources(e) ==
    <<IF IsSome(e.config) THEN Unwrap(e.config) ELSE Absent,
      IF e.cwd[1].exists THEN e.cwd[1] ELSE e.cwd[2],
      e.user>>

\* the first value that is set in a sequence of optional values
FirstSome(vals) ==
    IF \E i \in 1..Len(vals) : IsSome(vals[i])
    THEN vals[CHOOSE i \in 1..Len(vals) : IsSome(vals[i]) /\ \A j \in 1..(i - 1) : ~IsSome(vals[j])]
    ELSE None

\* the value of the highest-precedence source that sets field: the CLI
\* flag, then the --config file, the current-directory file, the
\* user-directory file
Effective(e, flag, field) ==
    FirstSome(<<flag>> \o [i \in 1..3 |-> SetBy(FileSources(e)[i], field)])

EffectiveCacheSize(e) == FirstSome([i \in 1..3 |-> CacheSizeSetBy(FileSources(e)[i])])

\* a ListenAddr written as host:port
ListenString(l) == l.host \o <<":">> \o PortToString(l.port)

\* C26: in the configuration load_start_proxy_config returns, cert, key and
\* listen are each the value of the highest-precedence source that sets it
\* (user-directory file < current-directory file < --config file < CLI
\* flag), cache_size is the value of the highest-precedence file that sets
\* it, and CA is disabled exactly when --noca is given or the merged file
\* value of noca is true.
C26_MergePrecedence ==
    (IsSome(proc) /\ IsSome(Unwrap(proc).cfg)) =>
        LET e == Unwrap(env)
            a == Unwrap(Unwrap(proc).args)
            cfg == Unwrap(Unwrap(proc).cfg)
        IN /\ cfg.ca_cert = Effective(e, a.ca_cert, "cert")
           /\ cfg.ca_key = Effective(e, a.ca_key, "key")
           /\ IsSome(Effective(e, a.listen, "listen")) =>
                 ListenString(cfg.listen) = Unwrap(Effective(e, a.listen, "listen"))
           /\ IsSome(EffectiveCacheSize(e)) =>
                 cfg.proxy_manager.cache_size = Unwrap(EffectiveCacheSize(e))
           /\ cfg.enable_ca = ~(a.noca \/ Effective(e, None, "noca") = Some(TRUE))

\* a rule whose protocol is http or https, whose host and path patterns
\* compile, and whose target_protocol and path_transform, when given, are
\* values the fields know
RuleItemValid(r) ==
    /\ r.protocol \in {Str_http, Str_https}
    /\ StartsWith(r.host, <<"r", "e", ":">>) => RegexCompiles(SubSeq(r.host, 4, Len(r.host)))
    /\ (IsSome(r.path) /\ StartsWith(Unwrap(r.path), <<"r", "e", ":">>)) =>
          RegexCompiles(SubSeq(Unwrap(r.path), 4, Len(Unwrap(r.path))))
    /\ IsSome(r.target_protocol) => Unwrap(r.target_protocol) \in {Str_http, Str_https}
    /\ IsSome(r.path_transform) =>
          to_lowercase(Unwrap(r.path_transform)) \in {Str_preserve, Str_prepend, Str_replace}

\* C27: the proxy never listens with an invalid rule in its configuration:
\* a rule of the command line or of a TOML file with an unknown protocol, a
\* host or path regex that does not compile or an unknown field value ends
\* startup before the listening state.
C27_InvalidRuleAborts ==
    (IsSome(proc) /\ Unwrap(proc).phase = "listening") =>
        \A i \in 1..Len(Unwrap(Unwrap(proc).cfg).proxy_manager.rules) :
            RuleItemValid(Unwrap(Unwrap(proc).cfg).proxy_manager.rules[i])

\* a file that exists and cannot be read or parsed
Unreadable(f) == f.exists /\ ~IsSome(f.content)

\* a string that is host:port with a u16 port
ValidHostPort(str) ==
    /\ RFind(str, ":") > 0
    /\ LET port == SubSeq(str, RFind(str, ":") + 1, Len(str))
       IN /\ Len(port) > 0
          /\ \A i \in 1..Len(port) : IsDigit(port[i])
          /\ DecimalValue(port) <= 65535

\* C28: load_start_proxy_config returns an error when one of the three
\* configuration files exists and cannot be read or parsed, or when the
\* listen value it is given (by the CLI flag or by the files) is not a
\* valid host:port.
C28_ConfigErrorsFatal ==
    (last.op = "load_start_proxy_config"
       /\ \/ \E i \in 1..3 : Unreadable(FileSources(Unwrap(env))[i])
          \/ /\ IsSome(Effective(Unwrap(env), Unwrap(last.rule).listen, "listen"))
             /\ ~ValidHostPort(Unwrap(Effective(Unwrap(env), Unwrap(last.rule).listen, "listen"))))
    => last.result = Some("Err")

\* C29: a process that has ended with exit code 0 was shut down cleanly,
\* and one that ended on a fatal startup error (configuration load error,
\* CA certificate or key not loaded, listening socket not bound) has a
\* non-zero exit code.
C29_ExitStatus ==
    (IsSome(proc) /\ Unwrap(proc).phase = "exited") =>
        /\ Unwrap(proc).exit_code = Some(0) => Unwrap(proc).cause = "shutdown"
        /\ Unwrap(proc).cause \in {"config", "ca", "bind"} => Unwrap(proc).exit_code # Some(0)

\* C30: a find_target call that has missed the cache holds the cache mutex
\* until it has inserted its result, so no two calls are between their
\* miss and their insert for the same URI.
C30_GetOrInsertAtomic ==
    /\ \A t \in Tasks : pc[t] \in {"ft_lookup", "ft_put"} => mutex = Some(t)
    /\ \A t1, t2 \in Tasks :
          (t1 # t2 /\ pc[t1] \in {"ft_lookup", "ft_put"} /\ pc[t2] \in {"ft_lookup", "ft_put"})
              => Local(t1).uri # Local(t2).uri

----------------------------------------------------------------------------
(* The lookups as the handler's futures run them, with cancellation: a     *)
(* future is dropped at one of its suspension points, the awaits on the    *)
(* RwLock and on the cache mutex.                                          *)

\* `self.proxy_manager.read().await`, pending: the caller waits for shared
\* access before it calls op (a lookup of uri, or clear_cache)
hr_read(t, op, uri) ==
    /\ pc[t] = "idle"
    /\ op # "clear_cache" => stats.total_lookups < MaxLookups
    /\ pc' = Goto(t, "rd_wait")
    /\ loc' = SetLoc(t, [op |-> op, uri |-> uri])
    /\ UNCHANGED <<exact_rules, pattern_rules, cache, stats, last, rw, mutex, cap, env, proc>>

\* the read guard is granted and the call starts: `self.stats.inc_total()`
\* of a lookup, or clear_cache on its way to the cache mutex
hr_enter(t) ==
    /\ pc[t] = "rd_wait" /\ CanRead
    /\ rw' = AcquireRead(t)
    /\ CASE Local(t).op = "find_target" ->
              /\ stats' = inc_total(stats)
              /\ pc' = Goto(t, "ft_get")
              /\ loc' = SetLoc(t, [uri |-> Local(t).uri, result |-> None])
         [] Local(t).op = "find_target_with_match_info" ->
              /\ stats' = inc_total(stats)
              /\ pc' = Goto(t, "mi_lookup")
              /\ loc' = SetLoc(t, [uri |-> Local(t).uri])
         [] Local(t).op = "clear_cache" ->
              /\ pc' = Goto(t, "cc_clear")
              /\ loc' = SetLoc(t, [i |-> 1])
              /\ UNCHANGED stats
    /\ UNCHANGED <<exact_rules, pattern_rules, cache, last, mutex, cap, env, proc>>

\* the suspension points of a lookup: the await on the RwLock and the two
\* awaits on the cache mutex
SuspensionPoints == {"rd_wait", "ft_get", "ft_put"}

\* The future of task t is dropped at a suspension point: its locals die
\* and with them the read guard if it has one; it holds no mutex guard
\* there.
cancel(t) ==
    /\ pc[t] \in SuspensionPoints
    /\ pc' = Goto(t, "idle")
    /\ loc' = [loc EXCEPT ![t] = None]
    /\ rw' = ReleaseRead(t)
    /\ last' = Call("cancel", Some(Local(t).uri), None, None, FALSE)
    /\ UNCHANGED <<exact_rules, pattern_rules, cache, stats, mutex, cap, env, proc>>

NextCancel ==
    \E t \in Tasks :
        \/ \E u \in ConcUris : hr_read(t, "find_target", u)
        \/ \E u \in ConcUris : hr_read(t, "find_target_with_match_info", u)
        \/ hr_enter(t)
        \/ ft_get(t)
        \/ ft_hit(t)
        \/ ft_lookup(t)
        \/ ft_put(t)
        \/ mi_lookup(t)
        \/ cancel(t)
        \/ \E r \in ConcRules : ar_begin(t, r)
        \/ ar_insert(t)
        \/ ar_clear(t)

SpecCancel == Init /\ [][NextCancel]_vars

\* task t was cancelled in this step
Cancelled(t) == pc[t] \in SuspensionPoints /\ pc'[t] = "idle" /\ last'.op = "cancel"

\* every entry is a URI string with an optional target
CacheComplete ==
    \A i \in 1..Len(cache) :
        /\ \E u \in Uris : cache[i].key = Uri_to_string(u)
        /\ cache[i].value = None \/ (IsSome(cache[i].value) /\ Unwrap(cache[i].value) \in Targets)

\* every entry is what the uncached lookup returns on the current rules
CacheCoherent ==
    \A u \in Uris :
        CacheContains(cache, Uri_to_string(u)) =>
            Parses(u) /\ CachePeek(cache, Uri_to_string(u)) = UncachedResult(u)

\* C31: after a lookup is cancelled at a suspension point the task holds
\* neither the cache mutex nor the RwLock, exact_rules and pattern_rules
\* are what they were, and the cache holds complete entries that are
\* coherent with the rules.
C31_CancelSafety ==
    [][\A t \in Tasks :
          Cancelled(t) =>
              /\ mutex' # Some(t)
              /\ t \notin rw'.readers /\ rw'.writer # Some(t)
              /\ UNCHANGED <<exact_rules, pattern_rules>>
              /\ CacheComplete'
              /\ rw'.writer = None => CacheCoherent']_vars

----------------------------------------------------------------------------
(* Lock hand-over: every call first waits for the RwLock, shared or        *)
(* exclusive, and takes the cache mutex only while it has it.              *)

LiveUris == {UriAuthA}
LiveRules == {Rule(PatHostOnly, Target1), Rule(PatWildHost, Target2)}

\* `proxy_manager.write().await`, pending: the caller waits for exclusive
\* access before it calls add_rule(rule) or clear()
mw_write(t, op, rule) ==
    /\ pc[t] = "idle"
    /\ (op = "add_rule" /\ ~is_exact(Unwrap(rule).pattern)) => Len(pattern_rules) < MaxPatternRules
    /\ pc' = Goto(t, "wr_wait")
    /\ loc' = SetLoc(t, [op |-> op, rule |-> rule])
    /\ UNCHANGED <<exact_rules, pattern_rules, cache, stats, last, rw, mutex, cap, env, proc>>

\* the write guard is granted and add_rule or clear starts
mw_enter(t) ==
    /\ pc[t] = "wr_wait" /\ CanWrite
    /\ rw' = AcquireWrite(t)
    /\ IF Local(t).op = "add_rule"
       THEN /\ pc' = Goto(t, "ar_insert")
            /\ loc' = SetLoc(t, [rule |-> Unwrap(Local(t).rule)])
       ELSE /\ pc' = Goto(t, "cl_rules")
            /\ loc' = SetLoc(t, [i |-> 1])
    /\ UNCHANGED <<exact_rules, pattern_rules, cache, stats, last, mutex, cap, env, proc>>

\* a caller asks for one of the five operations
Request(t) ==
    \/ \E u \in LiveUris : hr_read(t, "find_target", u)
    \/ \E u \in LiveUris : hr_read(t, "find_target_with_match_info", u)
    \/ hr_read(t, "clear_cache", None)
    \/ \E r \in LiveRules : mw_write(t, "add_rule", Some(r))
    \/ mw_write(t, "clear", None)

\* the steps of a call that wait for nothing
Run(t) == ft_hit(t) \/ ft_lookup(t) \/ mi_lookup(t) \/ ar_insert(t) \/ cl_rules(t)

\* what task t can do next once it has asked for an operation: take the
\* lock it waits for, or run
Advance(t) ==
    \/ hr_enter(t) \/ mw_enter(t)
    \/ ft_get(t) \/ ft_put(t) \/ cc_clear(t) \/ ar_clear(t) \/ cl_cache(t)
    \/ Run(t)

NextLive == \E t \in Tasks : Request(t) \/ Advance(t)

\* tokio's RwLock and Mutex hand over in FIFO order: a task that waits for
\* a lock which becomes free again and again gets it, and a task that
\* waits for nothing runs.  A task has one next step at a time, so strong
\* fairness of Advance is strong fairness of whichever step that is.
Fairness == \A t \in Tasks : SF_vars(Advance(t))

SpecLive == Init /\ [][NextLive]_vars /\ Fairness

\* the task has the RwLock, shared or exclusive
HoldsRw(t) == t \in rw.readers \/ rw.writer = Some(t)

\* C32: the cache mutex is only held by a task that holds the RwLock and
\* is not waiting for it; whenever an operation is pending some pending
\* operation can take a step; and with fair lock hand-over every
\* find_target, find_target_with_match_info, add_rule, clear and
\* clear_cache that was asked for completes.
C32_Progress ==
    /\ [](\A t \in Tasks : mutex = Some(t) => HoldsRw(t) /\ pc[t] \notin {"rd_wait", "wr_wait"})
    /\ []((\E t \in Tasks : pc[t] # "idle") => \E t \in Tasks : pc[t] # "idle" /\ ENABLED Advance(t))
    /\ \A t \in Tasks : (pc[t] # "idle") ~> (pc[t] = "idle")

\* a writer waits for the RwLock while the other task, a reader, holds the
\* cache mutex
C32_Witness ==
    /\ pc[1] = "wr_wait"
    /\ pc[2] = "ft_hit" /\ mutex = Some(2) /\ 2 \in rw.readers

----------------------------------------------------------------------------
(* Lookups on a manager whose cache is full: no rules, the counters reset  *)
(* after the lookups that filled the cache                                 *)

LruUris == {UriAbsA, UriAbsB, UriAuthA, UriPX, UriV1}

\* the caches of Unwrap(cap) entries the lookups of LruUris leave behind on
\* a manager without rules
FullCaches ==
    {c \in [1..CacheSize -> [key : {Uri_to_string(u) : u \in LruUris}, value : {None}]] :
        \A i, j \in 1..CacheSize : i # j => c[i].key # c[j].key}

InitLru ==
    /\ exact_rules = EmptyMap
    /\ pattern_rules = <<>>
    /\ cache \in FullCaches
    /\ stats = ZeroStats
    /\ last = Call("reset_stats", None, None, None, FALSE)
    /\ pc = Idle
    /\ loc = NoLocals
    /\ rw = Unlocked
    /\ mutex = None
    /\ cap = Some(CacheSize)
    /\ env = None
    /\ proc = None

NextLru ==
    \/ \E u \in LruUris : find_target(u)
    \/ \E u \in LruUris : find_target_with_match_info(u)
    \/ \E r \in ConcRules : add_rule(r.pattern, r.target)

SpecLru == InitLru /\ [][NextLru]_vars

\* the entries of c other than the one of key k, in their order
Without(c, k) == SelectSeq(c, LAMBDA e : e.key # k)

\* C33: the cache is kept in order of last touch: a find_target hit moves
\* the entry of its URI to the front and keeps the others in order; an
\* insertion puts the new entry at the front and, when the cache was full,
\* removes the entry at the back, the one touched least recently, so that an
\* entry hit since fewer than capacity other URIs were inserted is kept.
C33_LruOrder ==
    [][\A u \in LruUris :
          ReturnedOn("find_target", u) =>
              LET k == Uri_to_string(u)
              IN IF last'.hit
                 THEN /\ \E i \in 1..Len(cache) : cache[i].key = k /\ cache'[1] = cache[i]
                      /\ Without(cache', k) = Without(cache, k)
                 ELSE /\ cache'[1] = [key |-> k, value |-> Unwrap(last'.result)]
                      /\ Without(cache', k) =
                            IF Len(cache) >= Unwrap(cap)
                            THEN SubSeq(cache, 1, Len(cache) - 1)
                            ELSE cache]_vars

\* a hit on an entry of the full cache, then the insertion of another URI:
\* the entry that was hit is kept behind the new one
C33_Witness ==
    /\ last.op = "find_target" /\ ~last.hit
    /\ stats.total_lookups = 2 /\ stats.cache_hits = 1
    /\ Len(cache) = Unwrap(cap)
    /\ cache[1].key = Uri_to_string(Unwrap(last.uri))
    /\ Len(cache) >= 2

----------------------------------------------------------------------------
(* The running proxy: CONNECT requests, the interception decision and the
   CA (commands/start_proxy.rs, proxy_handler.rs, certification.rs) *)

\* a CONNECT target no sample rule matches
UriAuthOther == [scheme |-> None, host |-> Some(<<"o", ".", "y">>), port |-> None, pq |-> None]

ServeUris == {UriAuthA, UriAuthOther}

\* the environments without a user or current-directory file
ServeEnvs == {e \in Envs : e.user = Absent /\ e.cwd = <<Absent, Absent>>}

InitServe ==
    /\ InitCli
    /\ env \in {Some(e) : e \in ServeEnvs}

\* A CONNECT request reaches the listening proxy, which asks the handler
\* start_proxy built (commands/start_proxy.rs lines 130-137) whether to
\* intercept it
on_connect(uri) ==
    /\ IsSome(proc) /\ Unwrap(proc).phase = "listening"
    /\ should_intercept(Unwrap(Unwrap(proc).with_ca), uri)

\* certification.rs lines 27-35, CaEnum::gen_server_config: the proxy asks
\* the CA it was given for a server configuration when the handler has
\* answered that the connection is to be intercepted; CaEnum::None
\* dispatches to NoCa::gen_server_config (lines 136-142), which is
\* unreachable!()
gen_server_config ==
    /\ IsSome(proc) /\ Unwrap(proc).phase = "listening"
    /\ last.op = "should_intercept" /\ Unwrap(last.result).intercept
    /\ proc' = Some([Unwrap(proc) EXCEPT !.called = Unwrap(proc).ca])
    /\ last' = Call("gen_server_config", last.uri, None, Unwrap(proc).ca, FALSE)
    /\ UNCHANGED <<exact_rules, pattern_rules, cache, stats, pc, loc, rw, mutex, cap, env>>

NextServe ==
    \/ NextCli
    \/ \E uri \in ServeUris : on_connect(uri)
    \/ gen_server_config

SpecServe == InitServe /\ [][NextServe]_vars

\* C34: the no-op CA is never invoked.  Once start_proxy has built the
\* proxy, the CA it installed is NoCa exactly when the handler was built
\* with with_ca = false; a handler with with_ca = false answers false to
\* every should_intercept; and in no state has NoCa::gen_server_config
\* been called.
C34_NoCaNeverInvoked ==
    IsSome(proc) =>
        LET p == Unwrap(proc)
        IN /\ IsSome(p.ca) => ((p.ca = Some("NoCa")) <=> (p.with_ca = Some(FALSE)))
           /\ (last.op = "should_intercept" /\ ~Unwrap(last.result).with_ca)
                  => ~Unwrap(last.result).intercept
           /\ p.called # Some("NoCa")

\* a listening proxy that was given NoCa has answered a CONNECT
C34_Witness ==
    /\ IsSome(proc) /\ Unwrap(proc).phase = "listening"
    /\ Unwrap(proc).ca = Some("NoCa")
    /\ last.op = "should_intercept" /\ ~Unwrap(last.result).intercept

\* the rules list of the highest-precedence file that defines one
FileRules(e) ==
    LET set(f) == IF IsSome(SetBy(f, "proxy_manager"))
                  THEN Unwrap(SetBy(f, "proxy_manager")).rules ELSE None
        v == FirstSome([i \in 1..3 |-> set(FileSources(e)[i])])
    IN IF IsSome(v) THEN Unwrap(v) ELSE <<>>

\* C35: the rules installed at startup are the rules of the
\* highest-precedence configuration file that defines a rules list followed
\* by the --rule rules of the command line, each group in its order;
\* add_rule is called once for each of them, in that order, so that the
\* pattern rules stand in that order and a file rule is tried before a
\* command-line rule.
C35_StartupRuleOrder ==
    (IsSome(proc) /\ IsSome(Unwrap(proc).ca)) =>
        LET p == Unwrap(proc)
            all == FileRules(Unwrap(env)) \o Unwrap(p.args).rules
        IN /\ Len(p.calls) = Len(all)
           /\ \A i \in 1..Len(all) : Some(p.calls[i]) = rule_item_to_runtime(all[i])
           /\ pattern_rules = SelectSeq(p.calls, LAMBDA c : ~is_exact(c.pattern))

\* C40: system-proxy cleanup.  Whenever start_proxy has switched the
\* operating system's proxy setting on, the setting is off again when
\* start_proxy has returned, whether it returned after Ctrl+C or because
\* proxy.start() failed.
C40_SysproxyCleanup ==
    (IsSome(proc) /\ Unwrap(proc).phase = "exited") => ~Unwrap(proc).sysproxy

\* the targets a lookup may return that tests every installed rule with
\* AddressPattern::matches, the rules of the exact index first and then
\* the pattern rules in insertion order
ReferenceTargets(addr) ==
    LET ex == {k \in DOMAIN exact_rules : AddressPattern_matches(PatternOfKey(k), addr)}
    IN IF ex # {}
       THEN {Some(exact_rules[k]) : k \in ex}
       ELSE IF FirstMatch(pattern_rules, addr) # 0
            THEN {Some(pattern_rules[FirstMatch(pattern_rules, addr)].target)}
            ELSE {None}

\* the target of what find_target_with_match_info returned
TargetOf(result) == IF IsSome(result) THEN Some(Unwrap(result).target) ELSE None

\* C36: index equivalence.  For every URI that parses to an address,
\* find_target_with_match_info returns the target of the reference lookup
\* that tests every installed rule with AddressPattern::matches, the
\* exact-classified rules first and then the pattern rules in insertion
\* order.
C36_IndexEquivalence ==
    \A u \in Uris :
        Parses(u) => TargetOf(MatchInfoResult(u)) \in ReferenceTargets(AddressOf(u))

\* C37: cached and uncached lookups agree.  In every reachable state and
\* for every URI, find_target(uri) returns t exactly when
\* find_target_with_match_info(uri) returns a match with target t.
C37_LookupsAgree ==
    \A u \in Uris : FindTargetResult(u) = TargetOf(MatchInfoResult(u))

\* C38: duplicate exact keys.  add_rule of an exact-classified rule whose
\* key is already in exact_rules replaces the stored target and leaves
\* exact_rule_count() unchanged, and from then on find_target and
\* find_target_with_match_info on a URI with that key return the target
\* added last.
C38_DuplicateExactKey ==
    [][\A r \in Rules :
          (/\ Returned("add_rule") /\ last'.rule = Some(r)
           /\ is_exact(r.pattern)
           /\ ExactKeyOfPattern(r.pattern) \in DOMAIN exact_rules) =>
              /\ exact_rules'[ExactKeyOfPattern(r.pattern)] = r.target
              /\ DOMAIN exact_rules' = DOMAIN exact_rules
              /\ \A u \in Uris :
                    (Parses(u) /\ KeyOf(u) = ExactKeyOfPattern(r.pattern)) =>
                        /\ FindTargetResult(u)' = Some(r.target)
                        /\ TargetOf(MatchInfoResult(u))' = Some(r.target)]_vars

----------------------------------------------------------------------------
(* Requests rewritten with the prefix their own lookup returned
   (proxy_handler.rs handle_request over proxy_manage.rs and
   http_address.rs) *)

\* the wildcard /api/v1/u*, which ends inside a path segment
PatApiV1U == AddressPattern_new("Http", HostExample, None,
                                Some(<<"/", "a", "p", "i", "/", "v", "1", "/", "u", "*">>))

\* targets with the path /api/v2 in mode Prepend and the path / in mode Replace
TargetV2Prepend == [TargetV2 EXCEPT !.path_transform_mode = "Prepend"]
TargetRootReplace == [TargetV2 EXCEPT !.path = Some(<<"/">>)]

CutRules ==
    {Rule(PatApiV1, TargetV2), Rule(PatApiV1Star, TargetV2), Rule(PatApiV1U, TargetV2),
     Rule(PatApiV1Star, TargetV2Prepend), Rule(PatExampleStar, Target1),
     Rule(PatApiV1Star, TargetRootReplace)}

CutUris == {UriV1Users, UriV1}

NextCut ==
    \/ \E r \in CutRules : add_rule(r.pattern, r.target)
    \/ \E u \in CutUris : handle_request(u)

SpecCut == Init /\ [][NextCut]_vars

\* the path-and-query to_uri_with_rewrite produces for the match the
\* lookup of uri returns in the current state
RewrittenPath(uri) ==
    RewritePath(Unwrap(MatchInfoResult(uri)).target, uri,
                Unwrap(MatchInfoResult(uri)).matched_path_prefix)

\* what is left of the original path-and-query behind the cleaned prefix
\* when the Replace arm cuts it off
RestAfterCut(uri) ==
    LET m == Unwrap(MatchInfoResult(uri))
        pq == original_path(uri)
    IN SubSeq(pq, Len(CleanPrefix(Unwrap(m.matched_path_prefix))) + 1, Len(pq))

\* the Replace arm cuts the prefix off the original path-and-query
ReplaceCuts(uri) ==
    LET m == Unwrap(MatchInfoResult(uri))
    IN /\ m.target.path_transform_mode = "Replace"
       /\ IsSome(m.target.path) /\ IsSome(m.matched_path_prefix)
       /\ StartsWith(original_path(uri), CleanPrefix(Unwrap(m.matched_path_prefix)))

\* C39: rewritten paths stay well formed.  For a request whose path begins
\* with '/' and a matched target whose path, when set, begins with '/',
\* the path-and-query to_uri_with_rewrite produces with the matched prefix
\* of the lookup begins with '/'; and when the Replace arm cuts the prefix
\* off, what is left of the original path is empty or begins with '/' or
\* '?'.
C39_RewrittenPathWellFormed ==
    [][\A u \in CutUris :
          (/\ ReturnedOn("handle_request", u)
           /\ IsSome(MatchInfoResult(u))
           /\ StartsWith(original_path(u), <<"/">>)
           /\ IsSome(Unwrap(MatchInfoResult(u)).target.path) =>
                 StartsWith(Unwrap(Unwrap(MatchInfoResult(u)).target.path), <<"/">>)) =>
              /\ StartsWith(RewrittenPath(u), <<"/">>)
              /\ ReplaceCuts(u) =>
                    \/ RestAfterCut(u) = <<>>
                    \/ RestAfterCut(u)[1] \in {"/", "?"}]_vars
====
